---- MODULE Spec2Model ----
(***************************************************************************)
(* A model of the recipe retrieval-and-ranking pipeline: the compatibility *)
(* analyzer (src/src/dietary_analyzer.py), the substitution engine         *)
(* (src/src/substitution_engine.py), the candidate generator               *)
(* (src/src/recipe_integration.py), the vector index                       *)
(* (src/src/simple_vector_store.py), the embedder                          *)
(* (src/src/simple_embedding_model.py) and the orchestrator                *)
(* (src/src/rag_pipeline.py).                                              *)
(*                                                                         *)
(* Python strings that the code inspects character by character are        *)
(* sequences of one-character strings; dictionary keys and tags that the   *)
(* code only compares for equality are TLA+ strings.  Python floats are    *)
(* IEEE 754 doubles, every operation rounded to nearest (see Floats).      *)
(***************************************************************************)
EXTENDS Integers, Sequences, FiniteSets, TLC

\* ------------------------------------------------------------------------
\* Strings
\* ------------------------------------------------------------------------

\* The list of the values f[1], ..., f[Len(f)] of a function f on 1..Len(f).
List(f) == f \o <<>>

UpperChars == <<"A", "B", "C", "D", "E", "F", "G", "H", "I", "J", "K", "L", "M",
                "N", "O", "P", "Q", "R", "S", "T", "U", "V", "W", "X", "Y", "Z">>
LowerChars == <<"a", "b", "c", "d", "e", "f", "g", "h", "i", "j", "k", "l", "m",
                "n", "o", "p", "q", "r", "s", "t", "u", "v", "w", "x", "y", "z">>

\* str.lower()
lower(s) ==
    List([i \in 1..Len(s) |->
        IF \E k \in 1..26 : UpperChars[k] = s[i]
        THEN LowerChars[CHOOSE k \in 1..26 : UpperChars[k] = s[i]]
        ELSE s[i]])

\* sub in s, for two strings
Contains(sub, s) ==
    \E i \in 0..(Len(s) - Len(sub)) : SubSeq(s, i + 1, i + Len(sub)) = sub

\* The numbers of set S in increasing order.
Ascending(S) ==
    List([k \in 1..Cardinality(S) |-> CHOOSE i \in S : Cardinality({j \in S : j < i}) = k - 1])

\* str.split(): the words of s, split at runs of spaces
split(s) ==
    LET word(i) ==
            SubSeq(s, i, CHOOSE j \in i..Len(s) :
                            /\ \A m \in i..j : s[m] # " "
                            /\ (j = Len(s) \/ s[j + 1] = " "))
        words(starts) == List([k \in 1..Len(starts) |-> word(starts[k])])
    IN  words(Ascending({i \in 1..Len(s) : s[i] # " " /\ (i = 1 \/ s[i - 1] = " ")}))

\* str.strip()
strip(s) ==
    LET kept(nonblank) ==
            IF nonblank = {} THEN <<>>
            ELSE SubSeq(s, CHOOSE i \in nonblank : \A j \in nonblank : i <= j,
                        CHOOSE i \in nonblank : \A j \in nonblank : j <= i)
    IN  kept({i \in 1..Len(s) : s[i] # " "})

RECURSIVE Remove(_, _, _)
\* s[i..].replace(sub, ''), sub not empty: the part before the next
\* occurrence of sub, and what is left of the part after it
Remove(s, sub, i) ==
    LET cut(found) ==
            IF found = {} THEN SubSeq(s, i, Len(s))
            ELSE LET next(j) == SubSeq(s, i, j - 1) \o Remove(s, sub, j + Len(sub))
                 IN  next(CHOOSE j \in found : \A k \in found : j <= k)
    IN  cut({j \in i..(Len(s) - Len(sub) + 1) : SubSeq(s, j, j + Len(sub) - 1) = sub})

IsDigit(c) == c \in {"0", "1", "2", "3", "4", "5", "6", "7", "8", "9"}

\* The first position from i on whose character is not in set cs.
RunEnd(s, i, cs) ==
    CHOOSE k \in i..(Len(s) + 1) :
        /\ k > Len(s) \/ s[k] \notin cs
        /\ \A m \in i..(k - 1) : s[m] \in cs

RECURSIVE SubQuantity(_, _, _)
\* re.sub(rf'\d+\s*{unit}', '', s[i..]): the part before the next match, and
\* what is left of the part after it
SubQuantity(s, unit, i) ==
    LET after(j) ==
            RunEnd(s, RunEnd(s, j, {"0", "1", "2", "3", "4", "5", "6", "7", "8", "9"}), {" "})
        matches(j) ==
            /\ IsDigit(s[j])
            /\ after(j) + Len(unit) - 1 <= Len(s)
            /\ SubSeq(s, after(j), after(j) + Len(unit) - 1) = unit
        cut(found) ==
            IF found = {} THEN SubSeq(s, i, Len(s))
            ELSE LET next(j) ==
                         SubSeq(s, i, j - 1) \o SubQuantity(s, unit, after(j) + Len(unit))
                 IN  next(CHOOSE j \in found : \A k \in found : j <= k)
    IN  cut({j \in i..Len(s) : matches(j)})

\* Whether c is a letter (a cased character).
IsLetter(c) == \E k \in 1..26 : UpperChars[k] = c \/ LowerChars[k] = c

\* str.upper() of one character
upper(c) ==
    IF \E k \in 1..26 : LowerChars[k] = c
    THEN UpperChars[CHOOSE k \in 1..26 : LowerChars[k] = c]
    ELSE c

\* str.title(): a letter after a letter is lower-cased, any other letter is
\* upper-cased
title(s) ==
    List([i \in 1..Len(s) |->
        IF i > 1 /\ IsLetter(s[i - 1]) THEN lower(<<s[i]>>)[1] ELSE upper(s[i])])

RECURSIVE str(_)
\* str(n) for an integer n
str(n) ==
    IF n < 0 THEN <<"-">> \o str(-n)
    ELSE (IF n < 10 THEN <<>> ELSE str(n \div 10))
         \o <<(<<"0", "1", "2", "3", "4", "5", "6", "7", "8", "9">>)[(n % 10) + 1]>>

RECURSIVE join(_, _)
\* sep.join(l), the two halves of l joined
join(sep, l) ==
    IF l = <<>> THEN <<>>
    ELSE IF Len(l) = 1 THEN l[1]
    ELSE join(sep, SubSeq(l, 1, Len(l) \div 2)) \o sep
         \o join(sep, SubSeq(l, (Len(l) \div 2) + 1, Len(l)))

RECURSIVE SplitAt(_, _, _)
\* s[i..].split(sep) for a separator that is not empty: the part before the
\* next occurrence of sep, and the parts after it
SplitAt(s, sep, i) ==
    LET cut(found) ==
            IF found = {} THEN <<SubSeq(s, i, Len(s))>>
            ELSE LET next(j) == <<SubSeq(s, i, j - 1)>> \o SplitAt(s, sep, j + Len(sep))
                 IN  next(CHOOSE j \in found : \A k \in found : j <= k)
    IN  cut({j \in i..(Len(s) - Len(sep) + 1) : SubSeq(s, j, j + Len(sep) - 1) = sep})

\* l[:]: every element
TakeAll(l, n) == l

\* l[:n]: the first n elements, all but the last -n for a negative n
Take(l, n) ==
    SubSeq(l, 1, IF n < 0 THEN (IF Len(l) + n < 0 THEN 0 ELSE Len(l) + n)
                 ELSE IF n < Len(l) THEN n ELSE Len(l))

\* ------------------------------------------------------------------------
\* Floats: IEEE 754 doubles, round to nearest, ties to even
\* ------------------------------------------------------------------------
\* A double is written <<n, d, r, t>>.  With n/d in lowest terms, d > 0,
\* s the exponent of the doubles' grid at n/d (spacing 2^-s) and
\* F = floor(|n/d| * 2^s), it is the double  sign * (F + r) * 2^-s * 2^-t:
\* the r-th double above the grid position of n/d.  A literal or a quotient
\* of integers n/d is <<n, d, r, 0>> with r in {0, 1}; an integer has d = 1
\* and r = 0.  t # 0 only for values below 2^-30 or above 2^30 in magnitude,
\* and then 1 <= |n/d| < 2.  <<0, 0, 0, 0>> is nan, <<1, 0, 0, 0>> inf,
\* <<-1, 0, 0, 0>> -inf.  Every operation computes the exact result as
\* n/d plus an error term and rounds it as the hardware does.

\* Call(f, a) is the value of the definition named f on the arguments a.  The
\* arithmetic and the functions of the program that use it are reached
\* through it, so that each is one computation wherever it is used.
RECURSIVE Call(_, _)

RECURSIVE Gcd(_, _)
Gcd(a, b) == IF b = 0 THEN a ELSE IF a % b = 0 THEN b ELSE Gcd(a % b, b % (a % b))

Abs(x) == IF x < 0 THEN -x ELSE x

\* TRUE.  As a condition before an expression it has x computed there, the
\* way Python computes an operand before the operation that uses it, where
\* a definition is otherwise computed inside the first expression using it.
Evaluated(x) == x = x
Sgn(k) == IF k > 0 THEN 1 ELSE IF k < 0 THEN -1 ELSE 0

\* Exact rationals <<n, d>> in lowest terms, d > 0
QRat(n, d) ==
    LET reduced(g, sg) == <<sg * (n \div g), sg * (d \div g)>>
    IN  reduced(Gcd(Abs(n), Abs(d)), IF d < 0 THEN -1 ELSE 1)
QAdd(x, y) ==
    LET sum(g) == QRat(x[1] * (y[2] \div g) + y[1] * (x[2] \div g), (x[2] \div g) * y[2])
    IN  sum(Gcd(x[2], y[2]))
QMul(x, y) ==
    IF x[1] = 0 \/ y[1] = 0 THEN <<0, 1>>
    ELSE LET product(g1, g2) ==
                 <<(x[1] \div g1) * (y[1] \div g2), (x[2] \div g2) * (y[2] \div g1)>>
         IN  product(Gcd(Abs(x[1]), y[2]), Gcd(Abs(y[1]), x[2]))
QInv(x) == IF x[1] > 0 THEN <<x[2], x[1]>> ELSE <<-x[2], -x[1]>>
\* x * 2^k
QScale(x, k) == QMul(x, IF k >= 0 THEN <<2^k, 1>> ELSE <<1, 2^(-k)>>)

RECURSIVE PowMod(_, _, _, _)
\* acc * p^s mod m, for m < 46341
PowMod(p, s, m, acc) ==
    IF s = 0 THEN acc % m
    ELSE PowMod((p * p) % m, s \div 2, m, IF s % 2 = 1 THEN (acc * p) % m ELSE acc)
\* 2^s mod m, for m < 46341: up to s = 120 as the product of four powers of
\* at most 2^30
Pow2Mod(s, m) ==
    LET part(lo) == 2^(IF s < lo THEN 0 ELSE IF s - lo > 30 THEN 30 ELSE s - lo) % m
    IN  IF s > 120 THEN PowMod(2 % m, s, m, 1)
        ELSE (((((part(0) * part(30)) % m) * part(60)) % m) * part(90)) % m

\* floor(log2(m)) for 1 <= m < 2^31, and ceil(log2(m))
FloorLog2(m) == CHOOSE e \in 0..30 : 2^e <= m /\ m \div 2 < 2^e
CeilLog2(m) == IF m <= 1 THEN 0 ELSE 1 + FloorLog2(m - 1)
\* floor(log2(a/d)) for a, d > 0
ILog2(a, d) == IF a >= d THEN FloorLog2(a \div d) ELSE -CeilLog2((d + a - 1) \div a)

\* The grid exponent s at a/d > 0; below: the value lies under a/d, which
\* matters when a/d is a power of two, where the spacing halves.
Expo(a, d, below) ==
    LET at(e0) == 52 - e0 + (IF below /\ ((d = 1 /\ a = 2^e0) \/ (a = 1 /\ d = 2^(-e0)))
                             THEN 1 ELSE 0)
    IN  at(ILog2(a, d))

\* <<c, p>>: c/d is the fractional part of a * 2^s / d, p the parity of its floor
Frac(a, d, s) ==
    IF d = 1 THEN <<0, 0>>
    ELSE LET parts(c, c2) == <<c, (c2 - c) \div d>>
         IN  parts(((a % d) * Pow2Mod(s, d)) % d,
                   ((a % (2 * d)) * Pow2Mod(s, 2 * d)) % (2 * d))

\* Error terms <<a, b, T>>: the number a/b * 2^-T
Term(q, T) == <<q[1], q[2], T>>
SNeg(e) == <<-e[1], e[2], e[3]>>
SMul(e, q) == Term(QMul(<<e[1], e[2]>>, q), e[3])
\* the same number with 1 <= |a/b| < 2
SNorm(e) ==
    LET at(k) == Term(QScale(<<e[1], e[2]>>, -k), e[3] - k)
    IN  at(ILog2(Abs(e[1]), e[2]))
SAddNear(x, y) ==
    LET at(T) == Term(QAdd(QScale(<<x[1], x[2]>>, T - x[3]),
                           QScale(<<y[1], y[2]>>, T - y[3])), T)
    IN  at(IF x[3] > y[3] THEN x[3] ELSE y[3])
\* x + y; a term more than 2^24 times smaller than the other is dropped
SAdd(x, y) ==
    LET near(u, v) ==
            IF v[3] - u[3] > 24 THEN u
            ELSE IF u[3] - v[3] > 24 THEN v
            ELSE SAddNear(u, v)
    IN  IF x[1] = 0 THEN y
        ELSE IF y[1] = 0 THEN x
        ELSE IF Abs(x[3] - y[3]) > 24 THEN near(SNorm(x), SNorm(y))
        ELSE near(x, y)

\* The distance of the double x from its n/d (the factor 2^-t left out)
Err(x) ==
    LET term(e, s) == IF x[1] > 0 THEN <<e[1], e[2], s>> ELSE <<-e[1], e[2], s>>
        at(s) == term(QRat(x[3] * x[2] - Frac(Abs(x[1]), x[2], s)[1], x[2]), s)
    IN  IF x[1] = 0 \/ (x[2] = 1 /\ x[3] = 0) THEN <<0, 1, 0>>
        ELSE at(Expo(Abs(x[1]), x[2], x[3] < 0))

\* The double nearest to q + eps for q > 0, as <<n, d, r>>; tb is the sign
\* of what the exact result has beyond eps, which decides a tie.
RoundPos(q, eps, tb) ==
    LET nearest(cp, h, tie) ==
            <<q[1], q[2],
              IF h[2] = 1 /\ (tie < 0 \/ (tie = 0 /\ (cp[2] + h[1]) % 2 # 0))
              THEN h[1] - 1 ELSE h[1] \div h[2]>>
        \* u: eps, far: it is beyond the reach of the grid's half spacing
        placed(s, cp, u, far) ==
            nearest(cp,
                    QAdd(IF eps[1] = 0 \/ far THEN <<cp[1], q[2]>>
                         ELSE QAdd(<<cp[1], q[2]>>, QScale(<<u[1], u[2]>>, s - u[3])),
                         <<1, 2>>),
                    IF far THEN Sgn(eps[1]) ELSE tb)
        normal(s, cp, u) == placed(s, cp, u, eps[1] # 0 /\ u[3] - s > 24)
        at(s) == normal(s, Frac(q[1], q[2], s),
                        IF eps[1] # 0 /\ Abs(eps[3] - s) > 24 THEN SNorm(eps) ELSE eps)
    IN  IF eps[1] = 0 /\ q[2] = 1 THEN <<q[1], 1, 0>>
        ELSE at(Expo(q[1], q[2], eps[1] < 0 \/ (eps[1] = 0 /\ tb < 0)))
Round(q, eps, tb) ==
    LET signed(m) == IF q[1] < 0 THEN <<-m[1], m[2], m[3]>> ELSE m
    IN  signed(RoundPos(<<Abs(q[1]), q[2]>>,
                        IF q[1] < 0 THEN SNeg(eps) ELSE eps,
                        IF q[1] < 0 THEN -tb ELSE tb))

Zero == <<0, 1, 0, 0>>
NaN == <<0, 0, 0, 0>>
Inf == <<1, 0, 0, 0>>
IsNum(x) == x[2] # 0
IsNaN(x) == x[1] = 0 /\ x[2] = 0

\* <<n, d, r>> times 2^-t in the form described above
Scaled(m, t) ==
    LET plain(f) == <<f[1], f[2], m[3], 0>>
        shifted(q, e0) == IF e0 - t >= -30 /\ e0 - t <= 30 THEN plain(QScale(q, e0 - t))
                          ELSE <<q[1], q[2], m[3], t - e0>>
        at(e0) == shifted(QScale(<<m[1], m[2]>>, -e0), e0)
    IN  IF t = 0 THEN plain(m) ELSE at(ILog2(Abs(m[1]), m[2]))

\* The double nearest to (q + eps) * 2^-t
Rounded(q, eps, tb, t) == Scaled(Round(q, eps, tb), t)

\* The literal or integer quotient n/d as a double
Quotient(n, d) ==
    IF n = 0 THEN Zero
    ELSE Call("Rounded", <<QRat(n, d), <<0, 1, 0>>, 0, 0>>)
Rat(n, d) == Call("Rat", <<n, d>>)
One == <<1, 1, 0, 0>>

RNeg(x) == <<-x[1], x[2], x[3], x[4]>>
\* abs(x)
RAbs(x) == IF x[1] < 0 THEN RNeg(x) ELSE x

AddNum(x, y) ==
    LET apart(big, small) ==
            Call("Rounded", <<<<big[1], big[2]>>,
                              Call("SAdd", <<Call("Err", <<big>>),
                                             <<small[1], small[2], small[4] - big[4]>>>>),
                              0, big[4]>>)
        together(q, eps) ==
            IF q[1] # 0 THEN Call("Rounded", <<q, eps, 0, x[4]>>)
            ELSE IF eps[1] = 0 THEN Zero
            ELSE Call("Rounded", <<<<eps[1], eps[2]>>, <<0, 1, 0>>, 0, x[4] + eps[3]>>)
    IN  IF x[1] = 0 THEN y
        ELSE IF y[1] = 0 THEN x
        ELSE IF x[4] < y[4] THEN apart(x, y)
        ELSE IF x[4] > y[4] THEN apart(y, x)
        ELSE together(QAdd(<<x[1], x[2]>>, <<y[1], y[2]>>),
                      Call("SAdd", <<Call("Err", <<x>>), Call("Err", <<y>>)>>))
\* x + y
Added(x, y) ==
    IF IsNum(x) /\ IsNum(y) THEN AddNum(x, y)
    ELSE IF IsNaN(x) \/ IsNaN(y) THEN NaN
    ELSE IF IsNum(x) THEN y
    ELSE IF IsNum(y) \/ x[1] = y[1] THEN x
    ELSE NaN
RAdd(x, y) == Call("RAdd", <<x, y>>)
\* x - y
RSub(x, y) == Call("RAdd", <<x, RNeg(y)>>)
\* x * y
Multiplied(x, y) ==
    LET product(ex, ey) ==
            Call("Rounded", <<QMul(<<x[1], x[2]>>, <<y[1], y[2]>>),
                              Call("SAdd", <<SMul(ey, <<x[1], x[2]>>), SMul(ex, <<y[1], y[2]>>)>>),
                              Sgn(ex[1]) * Sgn(ey[1]), x[4] + y[4]>>)
    IN  IF IsNum(x) /\ IsNum(y)
        THEN IF x[1] = 0 \/ y[1] = 0 THEN Zero
             ELSE product(Call("Err", <<x>>), Call("Err", <<y>>))
        ELSE IF IsNaN(x) \/ IsNaN(y) \/ x[1] = 0 \/ y[1] = 0 THEN NaN
        ELSE <<Sgn(x[1]) * Sgn(y[1]), 0, 0, 0>>
RMul(x, y) == Call("RMul", <<x, y>>)
\* x / y for two numpy floats: a zero divisor gives nan for 0/0 and inf or
\* -inf otherwise (a RuntimeWarning, no exception)
Divided(x, y) ==
    LET rounded(q, eps, ey) ==
            Call("Rounded", <<q, eps, -Sgn(eps[1]) * Sgn(ey[1]) * Sgn(y[1]), x[4] - y[4]>>)
        quotient(iy, q, ex, ey) ==
            rounded(q, Call("SAdd", <<SMul(ex, iy), SNeg(SMul(ey, QMul(q, iy)))>>), ey)
        by(iy) == quotient(iy, QMul(<<x[1], x[2]>>, iy), Call("Err", <<x>>), Call("Err", <<y>>))
    IN  IF IsNum(x) /\ IsNum(y)
        THEN IF y[1] = 0 THEN <<Sgn(x[1]), 0, 0, 0>>
             ELSE IF x[1] = 0 THEN Zero
             ELSE by(QInv(<<y[1], y[2]>>))
        ELSE IF IsNaN(x) \/ IsNaN(y) \/ (~IsNum(y) /\ ~IsNum(x)) THEN NaN
        ELSE IF IsNum(x) THEN Zero
        ELSE IF y[1] >= 0 THEN x ELSE RNeg(x)
RDiv(x, y) == Call("RDiv", <<x, y>>)

LtPos(x, y) ==
    IF x[4] # y[4] THEN ILog2(x[1], x[2]) - x[4] < ILog2(y[1], y[2]) - y[4]
    ELSE IF x[1] # y[1] \/ x[2] # y[2] THEN QAdd(<<x[1], x[2]>>, <<-y[1], y[2]>>)[1] < 0
    ELSE x[3] < y[3]
\* x < y: every comparison with nan is False
Less(x, y) ==
    IF IsNaN(x) \/ IsNaN(y) THEN FALSE
    ELSE IF ~IsNum(x) \/ ~IsNum(y) THEN
         IF ~IsNum(x) /\ ~IsNum(y) THEN x[1] < y[1]
         ELSE IF ~IsNum(x) THEN x[1] < 0 ELSE y[1] > 0
    ELSE IF Sgn(x[1]) # Sgn(y[1]) THEN x[1] < y[1]
    ELSE IF x[1] = 0 THEN FALSE
    ELSE LtPos(IF x[1] > 0 THEN x ELSE RNeg(y), IF x[1] > 0 THEN y ELSE RNeg(x))
RLt(x, y) == Call("RLt", <<x, y>>)
\* x <= y
RLe(x, y) == Call("RLe", <<x, y>>)
RMax(x, y) == Call("RMax", <<x, y>>)
RMin(x, y) == Call("RMin", <<x, y>>)

\* The operations where the code's operands are floats throughout
FAdd(x, y) == RAdd(x, y)
FSub(x, y) == RSub(x, y)
FMul(x, y) == RMul(x, y)
FLt(x, y) == RLt(x, y)

\* ------------------------------------------------------------------------
\* The guideline tables and the nutrient database (the data loader's output)
\* ------------------------------------------------------------------------

\* dietary_guidelines.json as DataProcessor.load_dietary_guidelines returns it.
\* A key that a table lacks is absent from its DOMAIN, as in the dictionary.
dietary_guidelines ==
    [dietary_restrictions |->
        [r \in {"vegetarian", "vegan", "keto"} |->
            [excluded_ingredients |->
                CASE r = "vegetarian" -> <<<<"b", "e", "e", "f">>>>
                  [] r = "vegan" -> <<<<"b", "e", "e", "f">>, <<"m", "i", "l", "k">>>>
                  [] r = "keto" -> <<<<"r", "i", "c", "e">>, <<"L", "e", "n", "t", "i", "l">>>>]],
     allergies |->
        [a \in {"soy", "peanut", "dairy"} |->
            [incompatible_ingredients |->
                CASE a = "soy" -> <<<<"s", "o", "y">>, <<"T", "o", "f", "u">>>>
                  [] a = "peanut" -> <<<<"p", "e", "a", "n", "u", "t">>>>
                  [] a = "dairy" -> <<<<"m", "i", "l", "k">>, <<"w", "h", "o", "l", "e", " ", "m", "i", "l", "k">>>>]],
     health_conditions |->
        [c \in {"diabetes", "hypertension", "kidney"} |->
            CASE c = "diabetes" ->
                    [recommended_benefits |-> <<"diabetes_friendly", "blood_sugar_control">>,
                     avoid_nutrients |-> <<"sugar">>,
                     recommended_nutrients |-> <<"fiber", "protein">>]
              [] c = "hypertension" ->
                    [recommended_benefits |-> <<"heart_healthy">>,
                     avoid_nutrients |-> <<"sodium", "fat">>,
                     recommended_nutrients |-> <<>>]
              [] c = "kidney" ->
                    [recommended_benefits |-> <<"low_sodium">>,
                     avoid_nutrients |-> <<"sodium", "sugar", "fat", "protein",
                                           "carbohydrates", "calories">>,
                     recommended_nutrients |-> <<>>]],
     ingredient_substitutions |->
        [i \in {<<"m", "i", "l", "k">>, <<"b", "e", "e", "f">>} |->
            [substitutes |->
                IF i = <<"m", "i", "l", "k">>
                THEN <<[name |-> <<"w", "h", "o", "l", "e", " ", "m", "i", "l", "k">>, ratio |-> "1:1"],
                       [name |-> <<"o", "a", "t", " ", "m", "i", "l", "k">>, ratio |-> "1:1"],
                       [name |-> <<"T", "o", "f", "u">>, ratio |-> "1:2"]>>
                ELSE <<[name |-> <<"l", "e", "n", "t", "i", "l">>, ratio |-> "1:1"],
                       [name |-> <<"t", "o", "f", "u">>, ratio |-> "3:4"]>>]]]

\* nutritional_data.json's 'ingredients' dictionary, in its order: for each
\* ingredient the nutrient values the record holds itself (top), its
\* dietary_tags and the values under its 'nutrition' key.  The lentil carries
\* the tag of a restriction ("keto") whose guideline excludes it.
ingredients ==
    << [name |-> <<"m", "i", "l", "k">>, dietary_tags |-> <<"vegetarian">>,
        top |-> [n \in {"calories", "protein", "fat"} |->
                    CASE n = "calories" -> 60 [] n = "protein" -> 3 [] n = "fat" -> 4],
        nutrition |-> [n \in {"protein", "fat"} |-> IF n = "fat" THEN 4 ELSE 3]],
       [name |-> <<"w", "h", "o", "l", "e", " ", "m", "i", "l", "k">>, dietary_tags |-> <<"vegetarian">>,
        top |-> [n \in {"calories", "protein", "fat"} |->
                    CASE n = "calories" -> 80 [] n = "protein" -> 3 [] n = "fat" -> 4],
        nutrition |-> [n \in {"protein", "fat"} |-> IF n = "fat" THEN 4 ELSE 3]],
       [name |-> <<"o", "a", "t", " ", "m", "i", "l", "k">>, dietary_tags |-> <<"vegetarian", "vegan">>,
        top |-> [n \in {"calories", "protein", "fat", "fiber"} |->
                    CASE n = "calories" -> 40 [] n = "protein" -> 1 [] n = "fat" -> 2
                      [] n = "fiber" -> 1],
        nutrition |-> [n \in {"protein", "fat"} |-> IF n = "fat" THEN 2 ELSE 1]],
       [name |-> <<"t", "o", "f", "u">>, dietary_tags |-> <<"vegetarian", "vegan">>,
        top |-> [n \in {"calories", "protein", "fat"} |->
                    CASE n = "calories" -> 80 [] n = "protein" -> 8 [] n = "fat" -> 4],
        nutrition |-> [n \in {"protein", "fat"} |-> IF n = "fat" THEN 4 ELSE 8]],
       [name |-> <<"b", "e", "e", "f">>, dietary_tags |-> <<>>,
        top |-> [n \in {"calories", "protein", "fat"} |->
                    CASE n = "calories" -> 240 [] n = "protein" -> 24 [] n = "fat" -> 16],
        nutrition |-> [n \in {"protein", "fat"} |-> IF n = "fat" THEN 16 ELSE 24]],
       [name |-> <<"l", "e", "n", "t", "i", "l">>, dietary_tags |-> <<"vegetarian", "vegan", "keto">>,
        top |-> [n \in {"calories", "protein", "fiber"} |->
                    CASE n = "calories" -> 120 [] n = "protein" -> 8 [] n = "fiber" -> 8],
        nutrition |-> [n \in {"protein", "fiber"} |-> 8]],
       [name |-> <<"r", "i", "c", "e">>, dietary_tags |-> <<"vegan">>,
        top |-> <<>>,
        nutrition |-> [n \in {"carbohydrates"} |-> 28]] >>

\* dict.get(key, {}).get(field, []): the list under table[key][field], or []
GetList(table, key, field) ==
    IF key \in DOMAIN table THEN table[key][field] ELSE <<>>

\* ------------------------------------------------------------------------
\* The compatibility analyzer
\* ------------------------------------------------------------------------

\* Whether a word of pws and a word of iws contain one another.
WordsMatch(pws, iws) ==
    \E pw \in 1..Len(pws), iw \in 1..Len(iws) :
        Contains(pws[pw], iws[iw]) \/ Contains(iws[iw], pws[pw])

_ingredient_matches(pattern, ingredient) ==
    \/ pattern = ingredient
    \/ Contains(pattern, ingredient)
    \/ Contains(ingredient, pattern)
    \/ WordsMatch(split(pattern), split(ingredient))

RECURSIVE Conflicting(_, _, _)
\* The list the two nested loops build: ingredient i once for every pattern
\* it matches, in ingredient order.
Conflicting(names, patterns, i) ==
    IF i > Len(names) THEN <<>>
    ELSE List([k \in 1..Len(SelectSeq(patterns,
                          LAMBDA p : _ingredient_matches(lower(p), names[i]))) |->
             names[i]])
         \o Conflicting(names, patterns, i + 1)

\* [ing['name'].lower() for ing in recipe.get('ingredients', [])]
recipe_ingredients(recipe) ==
    List([i \in 1..Len(recipe.ingredients) |-> lower(recipe.ingredients[i])])

\* The keys of the dictionary filled by iterating over list l: the distinct
\* elements of l in the order of their first occurrence.
Keys(l) ==
    LET keys(firsts) == List([k \in 1..Len(firsts) |-> l[firsts[k]]])
    IN  keys(Ascending({i \in 1..Len(l) : \A j \in 1..(i - 1) : l[j] # l[i]}))

\* acc + l[i] + l[i + 1] + ..., the terms added one after the other as the
\* loop of sum() does, four to a step
RECURSIVE SumFrom(_, _, _)
SumFrom(l, i, acc) ==
    LET term(k) == IF k <= Len(l) THEN l[k] ELSE Zero
        a1 == RAdd(acc, term(i))
        a2 == RAdd(a1, term(i + 1))
        a3 == RAdd(a2, term(i + 2))
        a4 == RAdd(a3, term(i + 3))
    IN  CASE Evaluated(<<a1, a2, a3, a4>>) ->
             IF i + 3 >= Len(l) THEN a4 ELSE Call("SumFrom", <<l, i + 4, a4>>)

\* sum(l): the elements added to 0 in the order of the list
RSum(l) == CASE Evaluated(l) -> Call("SumFrom", <<l, 1, Zero>>)

RECURSIVE Repeated(_, _, _)
\* score after k times score += step
Repeated(score, step, k) ==
    IF k = 0 THEN score ELSE Call("Repeated", <<RAdd(score, step), step, k - 1>>)

\* sum(result['score'] ...) / len(results) if results else 1.0
Mean(results, keys) ==
    IF keys = <<>> THEN One
    ELSE RDiv(RSum(List([i \in 1..Len(keys) |-> results[keys[i]].score])), Rat(Len(keys), 1))

Threshold_0_7 == Rat(7, 10)
Threshold_0_6 == Rat(6, 10)

\* What each of the three checks returns: the per-key results (a dictionary:
\* its keys in insertion order and the record of each), their mean and
\* whether the mean reaches the threshold.
CheckResult(threshold, keys, results, overall) ==
    [overall_compatible |-> RLe(threshold, overall),
     compatibility_score |-> overall,
     keys |-> keys, results |-> results]

\* The result of a check when the user lists no key.
NoKeys ==
    [overall_compatible |-> TRUE, compatibility_score |-> Rat(1, 1),
     keys |-> <<>>, results |-> <<>>]

\* A faulty variant: a restriction scores 1.0 or 0.0 only, a recipe without
\* the tag and without a conflict getting 0.0.
TagOnlyRestrictionEntry(has_restriction_tag, conflicting_ingredients, excluded_ingredients) ==
    [compatible |-> has_restriction_tag /\ conflicting_ingredients = <<>>,
     score |-> IF has_restriction_tag /\ conflicting_ingredients = <<>>
               THEN Rat(1, 1) ELSE Rat(0, 1),
     has_restriction_tag |-> has_restriction_tag,
     conflicting_ingredients |-> conflicting_ingredients,
     excluded_ingredients |-> excluded_ingredients]

\* The entry of one restriction in restriction_results.
RestrictionEntry(has_restriction_tag, conflicting_ingredients, excluded_ingredients) ==
    [compatible |-> has_restriction_tag /\ conflicting_ingredients = <<>>,
     score |-> IF conflicting_ingredients # <<>> THEN Rat(0, 1)
               ELSE IF ~has_restriction_tag THEN Rat(1, 2)
               ELSE Rat(1, 1),
     has_restriction_tag |-> has_restriction_tag,
     conflicting_ingredients |-> conflicting_ingredients,
     excluded_ingredients |-> excluded_ingredients]

_check_dietary_restrictions(recipe, user_restrictions) ==
    IF user_restrictions = <<>> THEN NoKeys
    ELSE LET one(restriction, excluded) ==
                RestrictionEntry(\E i \in 1..Len(recipe.dietary_tags) :
                                     recipe.dietary_tags[i] = restriction,
                                 Conflicting(recipe_ingredients(recipe), excluded, 1),
                                 excluded)
             summary(keys, results) ==
                CheckResult(Threshold_0_7, keys, results, Mean(results, keys))
         IN  summary(Keys(user_restrictions),
                     [r \in {user_restrictions[i] : i \in 1..Len(user_restrictions)} |->
                        one(r, GetList(dietary_guidelines.dietary_restrictions, r,
                                       "excluded_ingredients"))])

\* The entry of one allergy in allergy_results.
AllergyEntry(conflicting_ingredients, incompatible_ingredients) ==
    [compatible |-> conflicting_ingredients = <<>>,
     score |-> IF conflicting_ingredients = <<>> THEN Rat(1, 1) ELSE Rat(0, 1),
     conflicting_ingredients |-> conflicting_ingredients,
     incompatible_ingredients |-> incompatible_ingredients]

_check_allergies(recipe, user_allergies) ==
    IF user_allergies = <<>> THEN NoKeys
    ELSE LET one(incompatible) ==
                AllergyEntry(Conflicting(recipe_ingredients(recipe), incompatible, 1),
                             incompatible)
             summary(keys, results) ==
                CheckResult(Threshold_0_7, keys, results, Mean(results, keys))
         IN  summary(Keys(user_allergies),
                     [a \in {user_allergies[i] : i \in 1..Len(user_allergies)} |->
                        one(GetList(dietary_guidelines.allergies, a,
                                    "incompatible_ingredients"))])

\* The nutrients of list l that the recipe lists with a value > 0.
Present(nutritional_info, l) ==
    Len(SelectSeq(l, LAMBDA n : n \in DOMAIN nutritional_info
                                /\ nutritional_info[n] > 0))

\* A faulty variant: the score is returned without the clamp to [0,1].
Unclamped_analyze_nutritional_content(nutritional_info, recommended_nutrients, avoid_nutrients) ==
    Call("Repeated", <<Call("Repeated", <<Rat(1, 1), Rat(-2, 10), Present(nutritional_info, avoid_nutrients)>>),
                       Rat(1, 10), Present(nutritional_info, recommended_nutrients)>>)

_analyze_nutritional_content(nutritional_info, recommended_nutrients, avoid_nutrients) ==
    RMax(Rat(0, 1),
         RMin(Rat(1, 1),
              Call("Repeated", <<Call("Repeated", <<Rat(1, 1), Rat(-2, 10),
                                                    Present(nutritional_info, avoid_nutrients)>>),
                                 Rat(1, 10), Present(nutritional_info, recommended_nutrients)>>)))

\* The entry of one condition in health_results.
HealthEntry(has_recommended_benefits, nutritional_score, overall_condition_score) ==
    [compatible |-> RLe(Threshold_0_6, overall_condition_score),
     score |-> overall_condition_score,
     has_recommended_benefits |-> has_recommended_benefits,
     nutritional_score |-> nutritional_score]

_check_health_conditions(recipe, user_health_conditions) ==
    IF user_health_conditions = <<>> THEN NoKeys
    ELSE LET scored(has_recommended_benefits, nutritional_score) ==
                HealthEntry(has_recommended_benefits, nutritional_score,
                            RAdd(RMul(IF has_recommended_benefits THEN Rat(1, 1) ELSE Rat(0, 1),
                                      Rat(6, 10)),
                                 RMul(nutritional_score, Rat(4, 10))))
             one(recommended_benefits, avoid_nutrients, recommended_nutrients) ==
                scored(\E i \in 1..Len(recommended_benefits),
                          j \in 1..Len(recipe.health_benefits) :
                            recommended_benefits[i] = recipe.health_benefits[j],
                       Call("_analyze_nutritional_content", <<recipe.nutritional_info,
                                                              recommended_nutrients, avoid_nutrients>>))
             info(table, condition) ==
                one(GetList(table, condition, "recommended_benefits"),
                    GetList(table, condition, "avoid_nutrients"),
                    GetList(table, condition, "recommended_nutrients"))
             summary(keys, results) ==
                CheckResult(Threshold_0_6, keys, results, Mean(results, keys))
         IN  summary(Keys(user_health_conditions),
                     [c \in {user_health_conditions[i] :
                                i \in 1..Len(user_health_conditions)} |->
                        info(dietary_guidelines.health_conditions, c)])

\* The fusion with the veto of the allergy score alone.
AllergyVetoOnly_calculate_compatibility_score(restriction_compatibility, allergy_compatibility, health_compatibility) ==
    IF allergy_compatibility.compatibility_score = Zero THEN Zero
    ELSE RAdd(RAdd(RMul(restriction_compatibility.compatibility_score, Rat(4, 10)),
                   RMul(allergy_compatibility.compatibility_score, Rat(4, 10))),
              RMul(health_compatibility.compatibility_score, Rat(2, 10)))

_calculate_compatibility_score(restriction_compatibility, allergy_compatibility, health_compatibility) ==
    IF allergy_compatibility.compatibility_score = Zero THEN Zero
    ELSE IF restriction_compatibility.compatibility_score = Zero THEN Zero
    ELSE RAdd(RAdd(RMul(restriction_compatibility.compatibility_score, Rat(4, 10)),
                   RMul(allergy_compatibility.compatibility_score, Rat(4, 10))),
              RMul(health_compatibility.compatibility_score, Rat(2, 10)))

\* The issues (and, one for one, the suggestions) as <<what, key>> pairs in
\* the order the three loops append them.
_identify_issues(restriction_compatibility, allergy_compatibility, health_compatibility) ==
    LET RIssue(result, restriction) ==
            IF result.compatible THEN <<>>
            ELSE IF result.conflicting_ingredients # <<>>
                 THEN << <<"incompatible_ingredients", restriction>> >>
                 ELSE << <<"not_tagged", restriction>> >>
        AIssue(result, allergy) ==
            IF result.compatible THEN <<>>
            ELSE << <<"allergy_reaction", allergy>> >>
        HIssue(result, condition) ==
            IF result.compatible THEN <<>>
            ELSE (IF ~result.has_recommended_benefits
                  THEN << <<"not_optimized", condition>> >> ELSE <<>>)
                 \o (IF RLt(result.nutritional_score, Rat(1, 2))
                     THEN << <<"nutrition_not_ideal", condition>> >> ELSE <<>>)
        Cat(f(_, _), check) ==
            LET RECURSIVE go(_)
                go(i) == IF i > Len(check.keys) THEN <<>>
                         ELSE f(check.results[check.keys[i]], check.keys[i]) \o go(i + 1)
            IN  go(1)
    IN  Cat(RIssue, restriction_compatibility) \o Cat(AIssue, allergy_compatibility)
        \o Cat(HIssue, health_compatibility)

analyze_recipe_compatibility(recipe, user_restrictions, user_allergies, user_health_conditions) ==
    LET result(restriction_compatibility, allergy_compatibility, health_compatibility,
               overall_score) ==
            [overall_compatible |-> RLe(Threshold_0_7, overall_score),
             overall_score |-> overall_score,
             restriction_compatibility |-> restriction_compatibility,
             allergy_compatibility |-> allergy_compatibility,
             health_compatibility |-> health_compatibility,
             issues |-> _identify_issues(restriction_compatibility, allergy_compatibility,
                                         health_compatibility)]
        scored(restriction_compatibility, allergy_compatibility, health_compatibility) ==
            result(restriction_compatibility, allergy_compatibility, health_compatibility,
                   Call("_calculate_compatibility_score", <<restriction_compatibility,
                                                            allergy_compatibility,
                                                            health_compatibility>>))
    IN  scored(Call("_check_dietary_restrictions", <<recipe, user_restrictions>>),
               Call("_check_allergies", <<recipe, user_allergies>>),
               Call("_check_health_conditions", <<recipe, user_health_conditions>>))

\* ------------------------------------------------------------------------
\* list.sort(key=..., reverse=True)
\* ------------------------------------------------------------------------

Reverse(l) == List([i \in 1..Len(l) |-> l[Len(l) + 1 - i]])

\* The elements of list l as a set.
Range(l) == {l[i] : i \in 1..Len(l)}

RECURSIVE BinarySearch(_, _, _, _, _)
\* Where CPython's binary insertion puts the element with key `pivot` into
\* the sorted list a of positions: right of every element not greater.
BinarySearch(keys, a, pivot, l, r) ==
    IF l >= r THEN l
    ELSE LET p == l + ((r - l) \div 2)
         IN  IF FLt(pivot, keys[a[p + 1]])
             THEN BinarySearch(keys, a, pivot, l, p)
             ELSE BinarySearch(keys, a, pivot, p + 1, r)

RECURSIVE BinarySort(_, _, _)
\* The positions todo[i..] inserted one by one into the sorted list a.
BinarySort(keys, a, todo) ==
    IF todo = <<>> THEN a
    ELSE LET insert(l) == SubSeq(a, 1, l) \o <<todo[1]>> \o SubSeq(a, l + 1, Len(a))
         IN  BinarySort(keys,
                        insert(BinarySearch(keys, a, keys[todo[1]], 0, Len(a))),
                        Tail(todo))

\* The order list.sort(key, reverse=True) leaves a list with these keys in:
\* the positions of the original list, first to last.  The list is
\* reversed, sorted ascending with < alone, and reversed again.
RECURSIVE CountRun(_, _, _, _)
\* The length of the run the list of positions todo starts with, k of its
\* elements being known to belong to it: a descending run is strictly
\* decreasing, any other run is non-decreasing.
CountRun(keys, todo, k, descending) ==
    IF k < Len(todo) /\ (FLt(keys[todo[k + 1]], keys[todo[k]]) <=> descending)
    THEN CountRun(keys, todo, k + 1, descending)
    ELSE k

\* list.sort() on fewer than 64 elements, as positions: the initial run is
\* taken as it is (a descending one reversed) and the other elements are
\* inserted into it.
ListSort(keys, todo) ==
    IF Len(todo) < 2 THEN todo
    ELSE LET from(descending, n) ==
                BinarySort(keys,
                           IF descending THEN Reverse(SubSeq(todo, 1, n))
                           ELSE SubSeq(todo, 1, n),
                           SubSeq(todo, n + 1, Len(todo)))
             start(descending) == from(descending, CountRun(keys, todo, 2, descending))
         IN  start(FLt(keys[todo[2]], keys[todo[1]]))

SortedPositions(keys) ==
    Reverse(ListSort(keys, Reverse(List([i \in 1..Len(keys) |-> i]))))

\* sorted(l, key, reverse=True) for keys that are numbers, keys[i] being the
\* key of l[i]: the sort is stable, so l[i] comes after the elements with a
\* greater key and the earlier elements with the same key.
StableSorted(l, keys) ==
    List([k \in 1..Len(l) |->
        l[CHOOSE i \in 1..Len(l) :
            Cardinality({j \in 1..Len(l) : keys[j] > keys[i] \/ (keys[j] = keys[i] /\ j < i)})
            = k - 1]])

\* The list l after l.sort(key, reverse=True), keys[i] being the key of l[i].
Sorted(l, keys) ==
    LET permute(order) == List([k \in 1..Len(order) |-> l[order[k]]])
    IN  IF Len(l) < 2 THEN l ELSE permute(SortedPositions(keys))

\* ------------------------------------------------------------------------
\* The substitution engine
\* ------------------------------------------------------------------------

RECURSIVE StripEach(_, _, _)
\* for x in xs[i..]: s = f(s, x).strip(), f removing a modifier (digits =
\* FALSE) or a quantity with its unit (digits = TRUE); the empty string
\* stays empty
StripEach(s, xs, digits) ==
    IF s = <<>> \/ xs = <<>> THEN s
    ELSE StripEach(strip(IF digits THEN SubQuantity(s, xs[1], 1)
                         ELSE Remove(s, xs[1], 1)),
                   Tail(xs), digits)

_normalize_ingredient_name(ingredient) ==
    LET modifiers == <<<<"f", "r", "e", "s", "h">>, <<"d", "r", "i", "e", "d">>, <<"f", "r", "o", "z", "e", "n">>, <<"c", "a", "n", "n", "e", "d">>,
                       <<"o", "r", "g", "a", "n", "i", "c">>, <<"r", "a", "w">>, <<"c", "o", "o", "k", "e", "d">>>>
        units == <<<<"c", "u", "p">>, <<"t", "b", "s", "p">>, <<"t", "s", "p">>, <<"o", "z">>, <<"l", "b">>,
                   <<"g">>, <<"k", "g">>, <<"m", "l">>, <<"l">>>>
    IN  StripEach(StripEach(strip(lower(ingredient)), modifiers, FALSE), units, TRUE)

\* The entry of the ingredient database as a dictionary that is not empty.
Entry(e) ==
    [empty |-> FALSE, dietary_tags |-> e.dietary_tags, top |-> e.top,
     nutrition |-> e.nutrition]

\* table.get(name, {}): the entry, or the empty dictionary
Lookup(table, name) ==
    IF \E i \in 1..Len(table) : table[i].name = name
    THEN Entry(table[CHOOSE i \in 1..Len(table) : table[i].name = name])
    ELSE [empty |-> TRUE, dietary_tags |-> <<>>, top |-> <<>>, nutrition |-> <<>>]

\* self.ingredients.get(name, {})
IngredientInfo(name) == Lookup(ingredients, name)

\* d.get(nutrient, 0)
Get0(d, nutrient) == IF nutrient \in DOMAIN d THEN d[nutrient] ELSE 0

InList(x, l) == \E i \in 1..Len(l) : l[i] = x

\* substitute.lower() in [ing.lower() for ing in names]
InLowered(substitute, names) ==
    InList(lower(substitute), List([k \in 1..Len(names) |-> lower(names[k])]))

RECURSIVE RestrictionScore(_, _, _, _, _)
\* compatibility_score after the loop over the restrictions i, i+1, ...,
\* entered with the given score: -= 0.5 or += 0.2, one restriction at a time
RestrictionScore(substitute, substitute_tags, dietary_restrictions, i, compatibility_score) ==
    IF i > Len(dietary_restrictions) THEN compatibility_score
    ELSE Call("RestrictionScore", <<substitute, substitute_tags, dietary_restrictions, i + 1,
                      IF InLowered(substitute,
                                   GetList(dietary_guidelines.dietary_restrictions,
                                           dietary_restrictions[i], "excluded_ingredients"))
                      THEN RSub(compatibility_score, Rat(5, 10))
                      ELSE IF InList(dietary_restrictions[i], substitute_tags)
                           THEN RAdd(compatibility_score, Rat(2, 10))
                           ELSE compatibility_score>>)

\* Whether the loop over the allergies finds the substitute listed.
Allergic(substitute, allergies) ==
    \E a \in 1..Len(allergies) :
        InLowered(substitute, GetList(dietary_guidelines.allergies, allergies[a],
                                      "incompatible_ingredients"))

\* A faulty variant: the allergy loop runs before the restriction loop, so a
\* restriction's bonus is added to the zeroed score.
AllergyFirst_calculate_substitution_compatibility(substitute, dietary_restrictions, allergies) ==
    IF dietary_restrictions = <<>> /\ allergies = <<>> THEN One
    ELSE RMax(Zero, RMin(One,
            Call("RestrictionScore", <<substitute, IngredientInfo(substitute).dietary_tags,
                                       dietary_restrictions, 1,
                                       IF Allergic(substitute, allergies) THEN Zero ELSE One>>)))

_calculate_substitution_compatibility(substitute, dietary_restrictions, allergies) ==
    IF dietary_restrictions = <<>> /\ allergies = <<>> THEN One
    ELSE RMax(Zero, RMin(One,
            IF Allergic(substitute, allergies) THEN Zero
            ELSE Call("RestrictionScore", <<substitute, IngredientInfo(substitute).dietary_tags,
                                            dietary_restrictions, 1, One>>)))

\* 1 - abs(val1 - val2) / max(val1, val2)
Similarity(val1, val2) ==
    RSub(One, Rat(Abs(val1 - val2), IF val1 > val2 THEN val1 ELSE val2))

\* sum(similarities) / len(similarities) if similarities else 0.0
MeanOrZero(similarities) ==
    IF similarities = <<>> THEN Zero
    ELSE RDiv(RSum(similarities), Rat(Len(similarities), 1))

_calculate_nutritional_similarity(nutrition1, nutrition2) ==
    IF nutrition1.empty \/ nutrition2.empty THEN Zero
    ELSE LET similarities(shared) ==
                List([k \in 1..Len(shared) |-> Similarity(Get0(nutrition1.top, shared[k]),
                                                     Get0(nutrition2.top, shared[k]))])
         IN  MeanOrZero(similarities(
                SelectSeq(<<"calories", "protein", "carbohydrates", "fat", "fiber">>,
                    LAMBDA n : Get0(nutrition1.top, n) > 0 /\ Get0(nutrition2.top, n) > 0)))

\* The record both kinds of option are: the fused score from its two parts.
Option(original_ingredient, substitute_name, ratio, compatibility_score, nutritional_similarity) ==
    [original_ingredient |-> original_ingredient,
     substitute_name |-> substitute_name,
     ratio |-> ratio,
     compatibility_score |-> compatibility_score,
     nutritional_similarity |-> nutritional_similarity,
     overall_score |-> RAdd(RMul(compatibility_score, Rat(7, 10)),
                            RMul(nutritional_similarity, Rat(3, 10)))]

_create_substitution_option(original_ingredient, substitute_info, dietary_restrictions, allergies) ==
    Option(original_ingredient, substitute_info.name, substitute_info.ratio,
           Call("_calculate_substitution_compatibility", <<substitute_info.name,
                                                           dietary_restrictions, allergies>>),
           Call("_calculate_nutritional_similarity", <<IngredientInfo(original_ingredient),
                                                       IngredientInfo(substitute_info.name)>>))

RECURSIVE _find_ingredient_based_substitutions(_, _, _, _)
\* The options the loop appends for the database entries i, i+1, ...
_find_ingredient_based_substitutions(ingredient, dietary_restrictions, allergies, i) ==
    IF i > Len(ingredients) THEN <<>>
    ELSE LET append(substitute_name, compatibility_score, nutritional_similarity) ==
                IF substitute_name # ingredient
                   /\ RLt(Rat(5, 10), compatibility_score)
                   /\ RLt(Rat(3, 10), nutritional_similarity)
                THEN <<Option(ingredient, substitute_name, "1:1", compatibility_score,
                              nutritional_similarity)>>
                ELSE <<>>
             body(substitute_name, substitute_data) ==
                append(substitute_name,
                       Call("_calculate_substitution_compatibility", <<substitute_name,
                                                                       dietary_restrictions, allergies>>),
                       Call("_calculate_nutritional_similarity", <<IngredientInfo(ingredient),
                                                                   substitute_data>>))
             item(e) == body(e.name, Entry(e))
         IN  item(ingredients[i])
             \o Call("_find_ingredient_based_substitutions", <<ingredient, dietary_restrictions,
                                                               allergies, i + 1>>)

\* The key find_substitutions sorts its options by.
SubstitutionSortKey(option) == option.compatibility_score

find_substitutions(ingredient, dietary_restrictions, allergies) ==
    LET sorted(substitution_options) ==
            Call("Sorted", <<substitution_options,
                             List([k \in 1..Len(substitution_options) |->
                                SubstitutionSortKey(substitution_options[k])])>>)
        options(direct, normalized_ingredient) ==
            sorted(List([k \in 1..Len(direct) |->
                      Call("_create_substitution_option", <<ingredient, direct[k],
                                                            dietary_restrictions, allergies>>)])
                   \o Call("_find_ingredient_based_substitutions", <<normalized_ingredient,
                                                                     dietary_restrictions,
                                                                     allergies, 1>>))
        lookup(normalized_ingredient) ==
            options(GetList(dietary_guidelines.ingredient_substitutions,
                            normalized_ingredient, "substitutes"),
                    normalized_ingredient)
    IN  lookup(_normalize_ingredient_name(ingredient))

_find_nutrient_boost_suggestions(nutrient, dietary_restrictions, allergies) ==
    LET suggestion(e) ==
            [type |-> "add_ingredient", ingredient |-> e.name, nutrient |-> nutrient,
             amount |-> Get0(e.nutrition, nutrient)]
        first(suggestions) ==
            Take(Call("Sorted", <<suggestions,
                                  List([k \in 1..Len(suggestions) |-> Rat(suggestions[k].amount, 1)])>>), 3)
        all(candidates) == first(List([k \in 1..Len(candidates) |-> suggestion(candidates[k])]))
    IN  all(SelectSeq(ingredients,
                LAMBDA e : Get0(e.nutrition, nutrient) > 0
                           /\ RLt(Rat(7, 10),
                                  Call("_calculate_substitution_compatibility", <<
                                                e.name, dietary_restrictions, allergies>>))))

RECURSIVE ReductionCandidates(_, _, _, _, _)
\* The suggestions the loop appends for the recipe's ingredients i, i+1, ...
ReductionCandidates(recipe, nutrient, dietary_restrictions, allergies, i) ==
    IF i > Len(recipe.ingredients) THEN <<>>
    ELSE LET value(name) == Get0(IngredientInfo(name).nutrition, nutrient)
             suggestion(substitute_name, nutrient_value) ==
                [type |-> "substitute_ingredient", ingredient |-> substitute_name,
                 nutrient |-> nutrient,
                 amount |-> nutrient_value - value(substitute_name)]
             append(lower_ones, nutrient_value) ==
                List([k \in 1..Len(lower_ones) |->
                    suggestion(lower_ones[k].substitute_name, nutrient_value)])
             inner(substitutions, nutrient_value) ==
                append(SelectSeq(substitutions,
                          LAMBDA o : value(o.substitute_name) < nutrient_value),
                       nutrient_value)
             body(ingredient_name, nutrient_value) ==
                IF nutrient_value > 0
                THEN inner(Take(Call("find_substitutions", <<ingredient_name, dietary_restrictions,
                                                             allergies>>), 2),
                           nutrient_value)
                ELSE <<>>
             item(ingredient_name) == body(ingredient_name, value(ingredient_name))
         IN  item(recipe.ingredients[i])
             \o Call("ReductionCandidates", <<recipe, nutrient, dietary_restrictions, allergies, i + 1>>)

_find_nutrient_reduction_suggestions(recipe, nutrient, dietary_restrictions, allergies) ==
    LET first(suggestions) ==
            Take(Call("Sorted", <<suggestions,
                                  List([k \in 1..Len(suggestions) |-> Rat(suggestions[k].amount, 1)])>>), 3)
    IN  first(Call("ReductionCandidates", <<recipe, nutrient, dietary_restrictions, allergies, 1>>))

\* The band of one target nutrient (target_value > 0).
Band(current_value, target_value) ==
    IF RLe(RMul(target_value, Rat(8, 10)), Rat(current_value, 1)) THEN One
    ELSE IF RLe(RMul(target_value, Rat(5, 10)), Rat(current_value, 1)) THEN Rat(7, 10)
    ELSE Rat(3, 10)

\* sum(scores) / len(scores) if scores else 1.0
MeanOrOne(scores) ==
    IF scores = <<>> THEN One ELSE RDiv(RSum(scores), Rat(Len(scores), 1))

_calculate_optimization_score(current_nutrition, target_nutrition) ==
    LET scores(tracked) ==
            List([k \in 1..Len(tracked) |->
                Band(Get0(current_nutrition, tracked[k][1]), tracked[k][2])])
    IN  MeanOrOne(scores(SelectSeq(target_nutrition, LAMBDA t : RLt(Zero, t[2]))))

\* abs(difference) > 0.1
Far(difference) == RLt(Rat(1, 10), RAbs(difference))

\* A faulty variant: a nutrient whose band is already 1.0 is not analysed.
BelowBandSignificant(current_value, target_value) ==
    /\ Far(RSub(target_value, Rat(current_value, 1)))
    /\ RLt(Rat(current_value, 1), RMul(target_value, Rat(8, 10)))

\* Whether a target is far enough from the current value to be analysed.
Significant(current_value, target_value) ==
    Far(RSub(target_value, Rat(current_value, 1)))

\* What the loop body does for the target <<nutrient, target_value>>: whether
\* it is analysed, its suggestions and its entry in nutrient_analysis.
Analysed(recipe, nutrient, target_value, dietary_restrictions, allergies) ==
    LET entry(current_value, suggestions) ==
            [nutrient |-> nutrient,
             analysed |-> TRUE,
             suggestions |-> suggestions,
             analysis |-> [current |-> current_value,
                           target |-> target_value,
                           difference |-> RSub(target_value, Rat(current_value, 1)),
                           suggestions_count |-> Len(suggestions)]]
        body(current_value) ==
            IF ~Significant(current_value, target_value)
            THEN [nutrient |-> nutrient, analysed |-> FALSE, suggestions |-> <<>>,
                  analysis |-> <<>>]
            ELSE entry(current_value,
                       IF RLt(Rat(current_value, 1), target_value)
                       THEN Call("_find_nutrient_boost_suggestions", <<nutrient,
                                          dietary_restrictions, allergies>>)
                       ELSE Call("_find_nutrient_reduction_suggestions", <<recipe, nutrient,
                                          dietary_restrictions, allergies>>))
    IN  body(Get0(recipe.nutritional_info, nutrient))

RECURSIVE Extend(_)
\* optimization_suggestions: every analysed target's suggestions, in order
Extend(loop) ==
    IF loop = <<>> THEN <<>> ELSE loop[1].suggestions \o Extend(Tail(loop))

\* target_nutrients is the dictionary as the list of its <<nutrient, target>>
\* items, a nutrient at most once.
optimize_recipe_nutrition(recipe, target_nutrients, dietary_restrictions, allergies) ==
    LET result(loop) ==
            [optimization_score |->
                Call("_calculate_optimization_score", <<recipe.nutritional_info, target_nutrients>>),
             suggestions |-> Extend(loop),
             nutrient_analysis |->
                [n \in {loop[k].nutrient : k \in {j \in 1..Len(loop) : loop[j].analysed}} |->
                    loop[CHOOSE k \in 1..Len(loop) : loop[k].nutrient = n].analysis],
             current_nutrition |-> recipe.nutritional_info,
             target_nutrition |-> target_nutrients]
    IN  result(List([k \in 1..Len(target_nutrients) |->
                  Analysed(recipe, target_nutrients[k][1], target_nutrients[k][2],
                           dietary_restrictions, allergies)]))

\* ------------------------------------------------------------------------
\* The corpora of the data directories
\* ------------------------------------------------------------------------

\* None, the value of a key a dictionary lacks
None == [op |-> "none"]

\* recipes.json of the data directory "data_solo": one recipe, the counts of
\* whose words are 6, 3 and nineteen times 1.
solo_recipes ==
    << [id |-> "s1",
        title |-> <<"r", "i", "c", "e", " ", "r", "i", "c", "e", " ", "r", "i", "c", "e", " ", "r", "i",
               "c", "e", " ", "r", "i", "c", "e", " ", "r", "i", "c", "e">>,
        dietary_tags |-> <<"vegan">>,
        health_benefits |-> <<>>,
        ingredients |-> <<<<"t", "o", "f", "u">>>>,
        nutritional_info |-> <<>>] >>

\* recipes.json of the data directory "data".  The squares of the word counts
\* of every recipe's text add up to 64, so every norm is a rational number.
data_recipes ==
    << [id |-> "d1",
        title |-> <<"B", "r", "e", "a", "k", "f", "a", "s", "t", " ", "R", "i", "c", "e", " ", "A", "s",
               "i", "a", "n", " ", "S", "t", "y", "l", "e">>,
        description |-> <<"r", "i", "c", "e", " ", "r", "i", "c", "e", " ", "r", "i", "c", "e">>,
        cuisine_type |-> <<"a", "s", "i", "a", "n">>,
        dietary_tags |-> <<"vegan">>,
        health_benefits |-> <<"heart_healthy">>,
        ingredients |-> <<<<"r", "i", "c", "e">>, <<"s", "o", "y", " ", "s", "a", "u", "c", "e">>, <<"g",
               "i", "n", "g", "e", "r">>>>,
        instructions |-> <<<<"s", "t", "e", "a", "m">>>>,
        nutritional_info |->
           [n \in {"calories", "protein", "carbohydrates", "fat",
               "fiber"} |->
               CASE n = "calories" -> 300 [] n = "protein" -> 10 [] n = "carbohydrates" -> 10 [] n = "fat" -> 10 [] n = "fiber" -> 5]],
       [id |-> "d2",
        title |-> <<"B", "e", "e", "f", " ", "r", "i", "c", "e">>,
        description |-> <<"b", "e", "e", "f", " ", "b", "e", "e", "f", " ", "b", "e", "e", "f", " ", "r",
               "i", "c", "e", " ", "r", "i", "c", "e">>,
        cuisine_type |-> <<"a", "m", "e", "r", "i", "c", "a", "n">>,
        dietary_tags |-> <<>>,
        health_benefits |-> <<>>,
        ingredients |-> <<<<"b", "e", "e", "f">>, <<"r", "i", "c", "e">>>>,
        instructions |-> <<<<"g", "r", "i", "l", "l">>, <<"s", "e", "r", "v", "e">>>>,
        nutritional_info |->
           [n \in {"calories", "protein", "fat", "sodium",
               "sugar"} |->
               CASE n = "calories" -> 500 [] n = "protein" -> 45 [] n = "fat" -> 20 [] n = "sodium" -> 900 [] n = "sugar" -> 0]],
       [id |-> "d3",
        title |-> <<"L", "e", "n", "t", "i", "l", " ", "p", "e", "a", " ", "s", "o", "u", "p">>,
        description |-> <<"l", "e", "n", "t", "i", "l", " ", "l", "e", "n", "t", "i", "l", " ", "l", "e",
               "n", "t", "i", "l", " ", "p", "e", "a">>,
        cuisine_type |-> <<"i", "n", "d", "i", "a", "n">>,
        dietary_tags |-> <<"vegetarian">>,
        health_benefits |-> <<"diabetes_friendly">>,
        ingredients |-> <<<<"l", "e", "n", "t", "i", "l">>, <<"p", "e", "a">>>>,
        instructions |-> <<<<"s", "i", "m", "m", "e", "r">>, <<"s", "e", "a", "s", "o", "n">>, <<"s",
               "e", "r", "v", "e">>>>,
        nutritional_info |->
           [n \in {"calories", "protein",
               "fiber"} |->
               CASE n = "calories" -> 200 [] n = "protein" -> 12 [] n = "fiber" -> 8]] >>

\* What DataProcessor(directory).load_recipes() returns; "data_empty" holds no
\* recipes.json.
load_recipes(directory) ==
    IF directory = "data" THEN data_recipes
    ELSE IF directory = "data_solo" THEN solo_recipes
    ELSE <<>>

\* The tags of the corpora as the texts they are.
Spelling ==
    [tag \in {"diabetes_friendly", "heart_healthy", "vegan", "vegetarian"} |->
        CASE tag = "diabetes_friendly" -> <<"d", "i", "a", "b", "e", "t", "e", "s", "_", "f", "r", "i", "e", "n", "d", "l", "y">>
          [] tag = "heart_healthy" -> <<"h", "e", "a", "r", "t", "_", "h", "e", "a", "l", "t", "h", "y">>
          [] tag = "vegan" -> <<"v", "e", "g", "a", "n">>
          [] tag = "vegetarian" -> <<"v", "e", "g", "e", "t", "a", "r", "i", "a", "n">>]

\* ------------------------------------------------------------------------
\* The data loader's texts and metadata (src/src/data_processor.py)
\* ------------------------------------------------------------------------

\* recipe.get(key, default)
Get(recipe, key, default) == IF key \in DOMAIN recipe THEN recipe[key] ELSE default

\* ', '.join(tags), every tag written out
JoinTags(tags) == join(<<",", " ">>, List([i \in 1..Len(tags) |-> Spelling[tags[i]]]))

\* The last section of a recipe's text.
NutritionalInfoText(nutritional_info) ==
    <<"N", "u", "t", "r", "i", "t", "i", "o", "n", "a", "l", " ", "I", "n", "f", "o", ":", " ",
      "C", "a", "l", "o", "r", "i", "e", "s", " ">>
    \o str(Get0(nutritional_info, "calories"))
    \o <<",", " ", "P", "r", "o", "t", "e", "i", "n", " ">>
    \o str(Get0(nutritional_info, "protein"))
    \o <<"g", ",", " ", "C", "a", "r", "b", "s", " ">>
    \o str(Get0(nutritional_info, "carbohydrates"))
    \o <<"g", ",", " ", "F", "a", "t", " ">>
    \o str(Get0(nutritional_info, "fat"))
    \o <<"g">>

process_recipe_text(recipe) ==
    join(<<" ", "|", " ">>,
         << <<"T", "i", "t", "l", "e", ":", " ">> \o Get(recipe, "title", <<>>),
            <<"D", "e", "s", "c", "r", "i", "p", "t", "i", "o", "n", ":", " ">>
               \o Get(recipe, "description", <<>>),
            <<"C", "u", "i", "s", "i", "n", "e", " ", "T", "y", "p", "e", ":", " ">>
               \o Get(recipe, "cuisine_type", <<>>),
            <<"D", "i", "e", "t", "a", "r", "y", " ", "T", "a", "g", "s", ":", " ">>
               \o JoinTags(recipe.dietary_tags),
            <<"H", "e", "a", "l", "t", "h", " ", "B", "e", "n", "e", "f", "i", "t", "s", ":", " ">>
               \o JoinTags(recipe.health_benefits),
            <<"I", "n", "g", "r", "e", "d", "i", "e", "n", "t", "s", ":", " ">>
               \o join(<<",", " ">>, recipe.ingredients),
            <<"I", "n", "s", "t", "r", "u", "c", "t", "i", "o", "n", "s", ":", " ">>
               \o join(<<" ">>, Get(recipe, "instructions", <<>>)),
            NutritionalInfoText(recipe.nutritional_info) >>)

\* create_recipe_chunks' default chunk_size
ChunkSize == 1000

RECURSIVE ChunkSections(_, _, _)
\* The chunks of a long text: what the loop over sections[i..] appends, and
\* the last chunk, current_chunk being the chunk under construction.
ChunkSections(sections, i, current_chunk) ==
    IF i > Len(sections)
    THEN IF current_chunk # <<>> THEN <<strip(current_chunk)>> ELSE <<>>
    ELSE IF Len(current_chunk) + Len(sections[i]) > ChunkSize
         THEN (IF current_chunk # <<>> THEN <<strip(current_chunk)>> ELSE <<>>)
              \o ChunkSections(sections, i + 1, sections[i])
         ELSE ChunkSections(sections, i + 1,
                            IF current_chunk # <<>>
                            THEN current_chunk \o <<" ", "|", " ">> \o sections[i]
                            ELSE sections[i])

RECURSIVE Flatten(_)
\* The concatenation of the lists of list ls.
Flatten(ls) == IF ls = <<>> THEN <<>> ELSE ls[1] \o Flatten(Tail(ls))

create_recipe_chunks(corpus) ==
    LET chunks(recipe_text) ==
            IF Len(recipe_text) > ChunkSize
            THEN ChunkSections(SplitAt(recipe_text, <<" ", "|", " ">>, 1), 1, <<>>)
            ELSE <<recipe_text>>
    IN  Flatten(List([r \in 1..Len(corpus) |-> chunks(process_recipe_text(corpus[r]))]))

get_recipe_metadata(corpus) ==
    LET metadata(recipe) ==
            [id |-> Get(recipe, "id", None),
             title |-> Get(recipe, "title", None),
             cuisine_type |-> Get(recipe, "cuisine_type", None),
             dietary_tags |-> recipe.dietary_tags,
             health_benefits |-> recipe.health_benefits,
             calories |-> Get0(recipe.nutritional_info, "calories"),
             protein |-> Get0(recipe.nutritional_info, "protein"),
             carbohydrates |-> Get0(recipe.nutritional_info, "carbohydrates"),
             fat |-> Get0(recipe.nutritional_info, "fat"),
             fiber |-> Get0(recipe.nutritional_info, "fiber")]
    IN  List([r \in 1..Len(corpus) |-> metadata(corpus[r])])

\* ------------------------------------------------------------------------
\* Vectors
\* ------------------------------------------------------------------------

\* The dimension of the embedder's and of the index's vectors.
EmbeddingDimension == 100

\* The number whose square is n.
Root(n) == CHOOSE r \in 0..n : r * r = n

\* The square root of a double x >= 0 whose n/d is the square of a rational
SquareRoot(x) ==
    LET root(e) ==
            Call("Rounded", <<<<Root(x[1]), Root(x[2])>>,
                              SMul(e, QInv(QScale(<<Root(x[1]), Root(x[2])>>, 1))),
                              IF e[1] = 0 THEN 0 ELSE -1, 0>>)
    IN  IF x[1] = 0 THEN Zero ELSE root(Call("Err", <<x>>))
Sqrt(x) == Call("Sqrt", <<x>>)

\* np.dot(vec1, vec2) for two vectors of one dimension: the products added
\* one by one in the order of the components (a product 0.0 changes nothing)
Dot(vec1, vec2) ==
    LET products(used) == List([k \in 1..Len(used) |-> RMul(vec1[used[k]], vec2[used[k]])])
    IN  RSum(products(SelectSeq(List([i \in 1..Len(vec1) |-> i]),
                                LAMBDA i : vec1[i] # Zero /\ vec2[i] # Zero)))

\* np.linalg.norm(vec)
Norm(vec) == Sqrt(Dot(vec, vec))

\* embedding / norm if norm > 0, else embedding
Normalized(embedding) ==
    LET divide(norm) ==
            IF RLt(Zero, norm)
            THEN List([i \in 1..Len(embedding) |-> RDiv(embedding[i], norm)])
            ELSE embedding
    IN  divide(Norm(embedding))

\* The number of occurrences of x in list l.
Count(x, l) == Len(SelectSeq(l, LAMBDA y : y = x))

\* ------------------------------------------------------------------------
\* The embedder (src/src/simple_embedding_model.py)
\* ------------------------------------------------------------------------

\* lower-cased, every character that is neither a letter nor a digit made a
\* space, the words joined by single spaces
_preprocess_text(text) ==
    LET spaced(lowered) ==
            List([i \in 1..Len(lowered) |->
                IF IsLetter(lowered[i]) \/ IsDigit(lowered[i]) THEN lowered[i] ELSE " "])
    IN  join(<<" ">>, split(spaced(lower(text))))

\* The words of the vocabulary in the order of their index: the
\* embedding_dimension most frequent words of the texts.
_build_vocabulary(texts) ==
    LET sorted_words(word_freq, words) ==
            StableSorted(word_freq, List([k \in 1..Len(word_freq) |-> Count(word_freq[k], words)]))
        count(words) == sorted_words(Keys(words), words)
    IN  Take(count(Flatten(List([t \in 1..Len(texts) |-> split(_preprocess_text(texts[t]))]))),
             EmbeddingDimension)

_text_to_embedding(text, word_to_index) ==
    LET count(words) ==
            List([i \in 1..EmbeddingDimension |->
                Rat(IF i <= Len(word_to_index) THEN Count(word_to_index[i], words) ELSE 0, 1)])
    IN  Normalized(count(split(_preprocess_text(text))))

\* encode_text on a list of texts by an embedder whose vocabulary is
\* word_to_index: the vocabulary afterwards and the embeddings.
encode_text(texts, word_to_index) ==
    LET encode(vocabulary) ==
            [word_to_index |-> vocabulary,
             embeddings |-> List([t \in 1..Len(texts) |-> Call("_text_to_embedding", <<texts[t], vocabulary>>)])]
    IN  encode(IF Len(word_to_index) = 0 THEN _build_vocabulary(texts) ELSE word_to_index)

\* ------------------------------------------------------------------------
\* The vector index (src/src/simple_vector_store.py)
\* ------------------------------------------------------------------------

\* The index with no entry.
EmptyStore == [documents |-> <<>>, metadatas |-> <<>>, embeddings |-> <<>>, ids |-> <<>>]

\* add_recipes with metadata and embeddings given; an id is the number of
\* the entry, standing for a fresh uuid4
add_recipes(store, recipe_texts, recipe_metadata, embeddings) ==
    [documents |-> store.documents \o recipe_texts,
     metadatas |-> store.metadatas \o recipe_metadata,
     ids |-> store.ids \o List([k \in 1..Len(recipe_texts) |-> Len(store.ids) + k]),
     embeddings |-> store.embeddings \o embeddings]

_text_to_simple_embedding(text) ==
    LET embedding(word_freq, words) ==
            List([i \in 1..EmbeddingDimension |->
                Rat(IF i <= Len(word_freq) THEN Count(word_freq[i], words) ELSE 0, 1)])
        count(words) == embedding(Keys(words), words)
    IN  Normalized(count(split(lower(text))))

\* The similarity of two vectors of one dimension.
_cosine_similarity(vec1, vec2) ==
    LET divide(dot_product, norm1, norm2) ==
            IF norm1 = Zero \/ norm2 = Zero THEN Zero
            ELSE RDiv(dot_product, RMul(norm1, norm2))
    IN  divide(Dot(vec1, vec2), Norm(vec1), Norm(vec2))

\* The metadata fields whose value is a list.
ListFields == {"dietary_tags", "health_benefits"}

\* Whether the metadata satisfy one constraint <<key, operator, value>>.
FilterMatches(metadata, key, operator, value) ==
    /\ key \in DOMAIN metadata
    /\ LET any(metadata_value) == \E k \in 1..Len(value) : InList(value[k], metadata_value)
       IN  CASE operator = "$in" ->
                  IF key \in ListFields THEN any(metadata[key])
                  ELSE InList(metadata[key], value)
             [] operator = "$contains" ->
                  IF key \in ListFields THEN any(metadata[key])
                  ELSE Contains(value, metadata[key])
             [] operator = "$not_contains" ->
                  IF key \in ListFields THEN ~any(metadata[key])
                  ELSE ~Contains(value, metadata[key])
             [] OTHER -> metadata[key] = value

\* The positions (from 0) of the entries that satisfy every constraint.
_apply_filters(metadatas, filter_dict) ==
    SelectSeq(List([i \in 1..Len(metadatas) |-> i - 1]),
              LAMBDA i : \A f \in 1..Len(filter_dict) :
                            FilterMatches(metadatas[i + 1], filter_dict[f][1],
                                          filter_dict[f][2], filter_dict[f][3]))

\* SimpleVectorStore.search_recipes: the four lists, or the exception np.dot
\* raises for a stored vector of another dimension than the query's, or the
\* one self.metadatas[i] raises for a hit the index has no metadata of.
\* filter_dict is the list of the constraints, empty for None.
StoreSearch(store, query, n_results, filter_dict) ==
    LET result(top) ==
            IF \E k \in 1..Len(top) : top[k][1] + 1 > Len(store.metadatas)
            THEN [raised |-> "IndexError"]
            ELSE [raised |-> "",
                  ids |-> List([k \in 1..Len(top) |-> store.ids[top[k][1] + 1]]),
                  documents |-> List([k \in 1..Len(top) |-> store.documents[top[k][1] + 1]]),
                  metadatas |-> List([k \in 1..Len(top) |-> store.metadatas[top[k][1] + 1]]),
                  distances |-> List([k \in 1..Len(top) |-> FSub(One, top[k][2])])]
        filtered(similarities, filtered_indices) ==
            SelectSeq(similarities, LAMBDA x : InList(x[1], filtered_indices))
        filter(similarities) ==
            IF filter_dict # <<>>
            THEN filtered(similarities, _apply_filters(store.metadatas, filter_dict))
            ELSE similarities
        sort(similarities) ==
            CASE Evaluated(similarities) ->
                 result(Take(filter(Call("Sorted", <<similarities,
                                                     List([k \in 1..Len(similarities) |-> similarities[k][2]])>>)),
                             n_results))
        compare(query_embedding) ==
            IF Evaluated(query_embedding)
               /\ \E i \in 1..Len(store.embeddings) :
                      Len(store.embeddings[i]) # Len(query_embedding)
            THEN [raised |-> "ValueError"]
            ELSE sort(List([i \in 1..Len(store.embeddings) |->
                         <<i - 1, Call("_cosine_similarity", <<query_embedding, store.embeddings[i]>>)>>]))
    IN  compare(Call("_text_to_simple_embedding", <<query>>))

\* ------------------------------------------------------------------------
\* The source of randomness
\* ------------------------------------------------------------------------

\* The module random is CPython's Mersenne Twister; the program never seeds
\* it, so that it starts in a state the system chooses.  Its state is written
\* <<s, p>>: the generator that random.seed(Seeds[s]) leaves, after p of its
\* 32-bit outputs have been taken.

\* The number of seeds, and the number of outputs the random source may have
\* given when a search or a recommendation returns.
MaxSeeds == 2

MaxDraws == 107

\* The number of outputs the random source may have given when a call made
\* on the generator itself returns.
MaxFetched == 222

\* The seeds the generator is seeded with.
Seeds == <<5903, 0, 1>>

\* The 16 most significant bits of the first outputs of the generator after
\* random.seed(Seeds[s]), for each s.
genrand_uint32 ==
    <<
      <<7201, 6017, 48727, 47821, 2832, 46032, 37313, 64138, 41456, 57884, 5619, 65455, 60579,
        64901, 19466, 191, 3456, 6674, 7163, 18028, 52642, 10982, 9283, 39018, 5030, 45205,
        61938, 29434, 63160, 6396, 41844, 32210, 35868, 16356, 19716, 5657, 28050, 58093, 40289,
        48087, 63021, 40659, 5840, 19856, 61029, 37900, 890, 54975, 18811, 29, 51748, 9748,
        52317, 42895, 89, 64185, 7458, 58140, 2392, 27730, 2362, 53141, 34538, 38221, 35400,
        56485, 43533, 10044, 27018, 13624, 55555, 31484, 15313, 62767, 1589, 43500, 47479, 12177,
        65074, 36417, 893, 9217, 21063, 63081, 42010, 35899, 14756, 10230, 56197, 26363, 40306,
        15121, 39445, 55149, 8794, 48303, 6735, 27157, 7798, 33884, 46138, 17435, 7030, 59718,
        36686, 45814, 57003, 43301, 34081, 44609, 6964, 44128, 8343, 33218, 49851, 17309, 20980,
        30953, 57342, 54826, 18820, 55445, 54763, 46038, 5906, 37022, 52383, 41839, 54315, 54320,
        19699, 59755, 41875, 41462, 16343, 37729, 25960, 52125, 43805, 27049, 38385, 22530,
        53420, 47798, 10013, 53079, 44993, 9302, 58635, 20288, 10278, 53620, 48762, 4514, 64304,
        3865, 24187, 51289, 27982, 4033, 19693, 38641, 8099, 36155, 55872, 36004, 9352, 7049,
        38838, 10592, 22577, 361, 37943, 9255, 43978, 9507, 40086, 13056, 61270, 64797, 44781,
        47390, 47757, 7397, 58625, 39233, 60486, 3878, 14528, 22612, 56115, 37905, 24400, 2539,
        14935, 48879, 3103, 6858, 5344, 29056, 19375, 35958, 22145, 34660, 39645, 41725, 57381,
        32536, 13604, 14524, 18919, 27120, 4453, 53214, 22034, 65345, 52628, 34361, 38103, 54360,
        1017, 7632, 21269, 54580, 58352, 7005, 54358, 10269, 57407, 50195, 29460, 7485, 8975,
        20119, 25125, 58946, 47180, 8385, 7048, 44337, 64461, 17680, 56563, 63167, 34163, 21916,
        37304, 33962, 37304, 6862, 13425, 31942, 62205, 60298, 24804, 259>>,
      <<55340, 25247, 49673, 58343, 27562, 2653, 16968, 63272, 33506, 31845, 26537, 60177, 51367,
        54385, 19877, 63425, 31234, 23465, 38232, 58435, 59514, 14315, 33075, 9127, 18470, 9158,
        49532, 6214, 40525, 52389, 16417, 64701, 59621, 34902, 64407, 46214, 53098, 39446, 59124,
        9631, 20325, 6472, 47830, 4832, 58906, 55736, 44825, 21639, 30942, 36687, 6599, 23186,
        28453, 20722, 40035, 41970, 59835, 13400, 63347, 36210, 31261, 29012, 56708, 34167,
        17071, 4081, 52758, 60192, 35959, 60030, 920, 6112, 47166, 55056, 26137, 46547, 54057,
        51448, 43788, 40977, 74, 40101, 32347, 54267, 56859, 21832, 15984, 47859, 21312, 46113,
        57047, 4127, 12521, 60097, 37192, 14529, 15637, 52648, 63408, 9338, 52637, 35585, 29358,
        5977, 5272, 65091, 20975, 57349, 33288, 65403, 61134, 32065, 7147, 19755, 36127, 19076,
        46305, 8179, 35877, 21807, 53376, 60440, 35408, 13317, 63166, 52391, 39530, 35863, 38510,
        18851, 29162, 6005, 39078, 52293, 25224, 20777, 37725, 15866, 19027, 12050, 12411, 53835,
        12237, 2160, 40158, 64310, 43034, 17043, 31229, 4527, 5886, 44480, 49650, 8534, 57460,
        9800, 60514, 2532, 55211, 5259, 58862, 45830, 60495, 54352, 35428, 44793, 25643, 54910,
        46221, 34378, 18063, 34196, 53190, 15433, 55671, 14103, 58657, 44530, 38653, 54084,
        62243, 27487, 37990, 18036, 29528, 32286, 43269, 42021, 65290, 45889, 60092, 64386,
        51991, 23420, 5398, 21254, 40159, 7559, 31879, 38474, 41297, 21972, 55383, 12476, 15927,
        1062, 47938, 17762, 7676, 46224, 14448, 24383, 52073, 11172, 21793, 27926, 53471, 4075,
        6593, 51322, 9591, 56054, 45722, 14337, 2964, 53550, 37608, 41563, 59638, 61375, 35009,
        39463, 44603, 4849, 1749, 8155, 41615, 12354, 39736, 54400, 37745, 7844, 25638, 5998,
        24257, 54646, 64259, 7605, 2384, 39682, 1417, 12752, 62982, 63615, 12122, 47062>>,
      <<8805, 37303, 55537, 52577, 50054, 4135, 16716, 7727, 32468, 49870, 29457, 30949, 42702,
        24878, 51689, 13759, 6151, 31972, 1857, 58544, 54772, 25546, 28361, 39809, 49956, 50276,
        138, 45602, 29188, 17454, 47286, 52548, 14992, 38741, 61949, 6699, 59075, 20803, 2004,
        1462, 1667, 42568, 35482, 603, 61548, 57752, 24982, 44989, 14195, 63507, 27663, 47569,
        1903, 34578, 14528, 50049, 28697, 61549, 32493, 36232, 15275, 22655, 15130, 44357, 14338,
        49869, 30120, 62406, 18991, 60719, 1408, 27274, 54891, 60048, 36467, 60436, 42093, 6553,
        12183, 41245, 65047, 47424, 56357, 19424, 7922, 48702, 21803, 58692, 47283, 63783, 46608,
        32820, 61370, 63387, 27663, 33273, 54397, 59649, 43929, 12441, 19881, 18622, 38507,
        63796, 57834, 32726, 55456, 61663, 33114, 25778, 38600, 55921, 2262, 31472, 15908, 48741,
        52258, 26495, 27152, 43564, 11338, 24059, 35966, 57850, 46074, 50845, 44203, 48379,
        24556, 5666, 28767, 43500, 33320, 7073, 51016, 10728, 34140, 55047, 25772, 24282, 32092,
        48022, 1938, 30757, 2849, 20219, 46096, 55594, 64434, 40292, 38874, 37891, 25794, 42412,
        11164, 11048, 32914, 14872, 64361, 806, 50497, 13075, 35364, 60298, 56379, 35935, 15215,
        26506, 33670, 22532, 62420, 55539, 37866, 23152, 30089, 59621, 17647, 43202, 35913,
        39907, 62725, 47801, 374, 25145, 51357, 56161, 53771, 62563, 58076, 61502, 48529, 33587,
        53027, 8470, 33992, 50947, 36789, 13466, 27924, 62240, 3678, 31529, 57016, 23903, 37355,
        36333, 13096, 61670, 33077, 27092, 31780, 53303, 23382, 27159, 22680, 103, 35289, 35396,
        40861, 51540, 40137, 21701, 30025, 39312, 1833, 52728, 15047, 41639, 11613, 36094, 38303,
        11847, 56427, 6003, 52326, 36112, 52238, 55789, 53506, 61010, 16730, 2127, 55164, 61837,
        44113, 4617, 5454, 56890, 1093, 29687, 954, 49423, 49518, 18428, 16355, 17605>>
    >>

\* The state after random.seed(Seeds[a]) in any state.
Reseeded(state, a) == <<a, 0>>

\* getrandbits(k) for 0 < k <= 16: the k most significant bits of the next
\* output.  Past the outputs a behaviour may take the value is 0.
getrandbits(k, state) ==
    [value |-> IF state[2] < Len(genrand_uint32[state[1]])
               THEN genrand_uint32[state[1]][state[2] + 1] \div 2^(16 - k)
               ELSE 0,
     state |-> <<state[1], state[2] + 1>>]

RECURSIVE bit_length(_)
\* n.bit_length() for n >= 0
bit_length(n) == IF n = 0 THEN 0 ELSE 1 + bit_length(n \div 2)

RECURSIVE randbelow(_, _)
\* Random._randbelow_with_getrandbits(n) for n > 0: numbers of n.bit_length()
\* bits are taken until one is below n.
randbelow(n, state) ==
    LET retry(r) == IF r.value >= n THEN randbelow(n, r.state) ELSE r
    IN  retry(getrandbits(bit_length(n), state))

\* random.choice(seq)
choice(seq, state) ==
    LET chosen(r) == [value |-> seq[r.value + 1], state |-> r.state]
    IN  chosen(randbelow(Len(seq), state))

\* random.randint(a, b)
randint(a, b, state) ==
    LET shifted(r) == [value |-> a + r.value, state |-> r.state]
    IN  shifted(randbelow(b - a + 1, state))

RECURSIVE sample(_, _, _)
\* random.sample(pool, k) for a pool of at most 21 elements: k draws, each
\* taking an element out of the pool and putting the pool's last element in
\* its place
sample(pool, k, state) ==
    IF k = 0 THEN [value |-> <<>>, state |-> state]
    ELSE LET result(j, rest) == [value |-> <<pool[j]>> \o rest.value, state |-> rest.state]
             pick(r) ==
                 result(r.value + 1,
                        sample(SubSeq([pool EXCEPT ![r.value + 1] = pool[Len(pool)]], 1,
                                      Len(pool) - 1),
                               k - 1, r.state))
         IN  pick(randbelow(Len(pool), state))

RECURSIVE Draws(_, _, _, _)
\* The numbers randbelow(ns[lo]), ..., randbelow(ns[hi]) give when they are
\* called one after the other, and the state after them: the calls are taken
\* in four runs, each from the state the run before it leaves.
Draws(ns, lo, hi, state) ==
    IF lo > hi THEN [value |-> <<>>, state |-> state]
    ELSE IF lo = hi
         THEN LET one(r) == [value |-> <<r.value>>, state |-> r.state] IN one(randbelow(ns[lo], state))
         ELSE LET run(k, from) ==
                      Draws(ns, lo + k * ((hi - lo) \div 4 + 1),
                            IF k = 3 \/ lo + (k + 1) * ((hi - lo) \div 4 + 1) - 1 > hi
                            THEN hi ELSE lo + (k + 1) * ((hi - lo) \div 4 + 1) - 1,
                            from)
                  all(a, b, c, d) ==
                      [value |-> a.value \o b.value \o c.value \o d.value, state |-> d.state]
                  fourth(a, b, c) == all(a, b, c, run(3, c.state))
                  third(a, b) == fourth(a, b, run(2, b.state))
                  second(a) == third(a, run(1, a.state))
              IN  second(run(0, state))
\* ------------------------------------------------------------------------
\* The candidate generator (src/src/recipe_integration.py)
\* ------------------------------------------------------------------------

\* The items of the dictionary of the keywords of each recipe type.
categories ==
    << <<<<"b", "r", "e", "a", "k", "f", "a", "s", "t">>, <<<<"p", "a", "n", "c", "a", "k", "e",
            "s">>, <<"o", "a", "t", "m", "e", "a", "l">>, <<"s", "m", "o", "o", "t", "h", "i",
            "e">>, <<"e", "g", "g", "s">>, <<"t", "o", "a", "s", "t">>>> >>,
       <<<<"l", "u", "n", "c", "h">>, <<<<"s", "a", "l", "a", "d">>, <<"s", "a", "n", "d", "w",
               "i", "c", "h">>, <<"s", "o", "u", "p">>, <<"p", "a", "s", "t", "a">>, <<"r", "i",
               "c", "e">>>> >>,
       <<<<"d", "i", "n", "n", "e", "r">>, <<<<"c", "h", "i", "c", "k", "e", "n">>, <<"f", "i",
               "s", "h">>, <<"b", "e", "e", "f">>, <<"v", "e", "g", "e", "t", "a", "r", "i", "a",
               "n">>, <<"v", "e", "g", "a", "n">>>> >>,
       <<<<"d", "e", "s", "s", "e", "r", "t">>, <<<<"c", "a", "k", "e">>, <<"c", "o", "o", "k",
               "i", "e", "s">>, <<"i", "c", "e", "_", "c", "r", "e", "a", "m">>, <<"p", "u", "d",
               "d", "i", "n", "g">>, <<"f", "r", "u", "i", "t">>>> >>,
       <<<<"s", "n", "a", "c", "k">>, <<<<"n", "u", "t", "s">>, <<"f", "r", "u", "i", "t">>, <<"y",
               "o", "g", "u", "r", "t">>, <<"c", "h", "i", "p", "s">>, <<"s", "m", "o", "o", "t",
               "h", "i", "e">>>> >> >>

cuisines ==
    <<<<"m", "e", "d", "i", "t", "e", "r", "r", "a", "n", "e", "a", "n">>, <<"a", "s", "i", "a",
            "n">>, <<"i", "n", "d", "i", "a", "n">>, <<"a", "m", "e", "r", "i", "c", "a", "n">>,
            <<"i", "t", "a", "l", "i", "a", "n">>,
      <<"m", "e", "x", "i", "c", "a", "n">>, <<"f", "r", "e", "n", "c", "h">>, <<"t", "h", "a",
              "i">>, <<"j", "a", "p", "a", "n", "e", "s", "e">>, <<"c", "h", "i", "n", "e", "s",
              "e">>>>

dietary_options ==
    <<"vegetarian", "vegan", "gluten-free", "dairy-free", "keto", "low_sodium",
      "diabetes_friendly", "heart_healthy">>

base_ingredients ==
    << <<<<"b", "r", "e", "a", "k", "f", "a", "s", "t">>, <<<<"e", "g", "g", "s">>, <<"m", "i",
            "l", "k">>, <<"f", "l", "o", "u", "r">>, <<"b", "u", "t", "t", "e", "r">>, <<"s", "u",
            "g", "a", "r">>, <<"v", "a", "n", "i", "l", "l", "a">>>> >>,
       <<<<"l", "u", "n", "c", "h">>, <<<<"c", "h", "i", "c", "k", "e", "n">>, <<"r", "i", "c",
               "e">>, <<"v", "e", "g", "e", "t", "a", "b", "l", "e", "s">>, <<"o", "l", "i", "v",
               "e", " ", "o", "i", "l">>, <<"g", "a", "r", "l", "i", "c">>, <<"o", "n", "i", "o",
               "n">>>> >>,
       <<<<"d", "i", "n", "n", "e", "r">>, <<<<"b", "e", "e", "f">>, <<"p", "a", "s", "t", "a">>,
               <<"t", "o", "m", "a", "t", "o", "e", "s">>, <<"c", "h", "e", "e", "s", "e">>, <<"h",
               "e", "r", "b", "s">>, <<"w", "i", "n", "e">>>> >>,
       <<<<"d", "e", "s", "s", "e", "r", "t">>, <<<<"f", "l", "o", "u", "r">>, <<"s", "u", "g",
               "a", "r">>, <<"e", "g", "g", "s">>, <<"b", "u", "t", "t", "e", "r">>, <<"v", "a",
               "n", "i", "l", "l", "a">>, <<"c", "h", "o", "c", "o", "l", "a", "t", "e">>>> >>,
       <<<<"s", "n", "a", "c", "k">>, <<<<"n", "u", "t", "s">>, <<"f", "r", "u", "i", "t", "s">>,
               <<"y", "o", "g", "u", "r", "t">>, <<"h", "o", "n", "e", "y">>, <<"c", "i", "n", "n",
               "a", "m", "o", "n">>, <<"s", "e", "e", "d", "s">>>> >> >>

base_calories ==
    << <<<<"b", "r", "e", "a", "k", "f", "a", "s", "t">>, <<200, 400>> >>,
       <<<<"l", "u", "n", "c", "h">>, <<300, 600>> >>,
       <<<<"d", "i", "n", "n", "e", "r">>, <<400, 800>> >>,
       <<<<"d", "e", "s", "s", "e", "r", "t">>, <<150, 350>> >>,
       <<<<"s", "n", "a", "c", "k">>, <<100, 250>> >> >>

\* d.get(key, default) for the dictionary whose items are the pairs of `items`
DictGet(items, key, default) ==
    IF \E i \in 1..Len(items) : items[i][1] = key
    THEN items[CHOOSE i \in 1..Len(items) : items[i][1] = key][2]
    ELSE default

\* The ingredients of a generated recipe: their names, and for each one its
\* amount, unit and notes, drawn in this order (random.randint(1, 4) is
\* 1 + randbelow(4), random.choice(seq) is seq[randbelow(len(seq))]); and
\* the state after the draws.
_generate_ingredients(recipe_type, dietary_restrictions, state) ==
    LET excluded(ing) ==
            \/ InList("vegetarian", dietary_restrictions) /\ ing \in {<<"b", "e", "e", "f">>,
                    <<"c", "h", "i", "c", "k", "e", "n">>}
            \/ InList("vegan", dietary_restrictions)
               /\ ing \in {<<"m", "i", "l", "k">>, <<"e", "g", "g", "s">>, <<"c", "h", "e", "e",
                       "s", "e">>, <<"b", "u", "t", "t", "e", "r">>}
            \/ InList("gluten-free", dietary_restrictions) /\ ing \in {<<"f", "l", "o", "u", "r">>,
                    <<"p", "a", "s", "t", "a">>}
        units == <<<<"c", "u", "p">>, <<"t", "b", "s", "p">>, <<"t", "s", "p">>, <<"o", "z">>,
                   <<"p", "i", "e", "c", "e">>>>
        notes == <<<<>>, <<"f", "r", "e", "s", "h">>, <<"o", "r", "g", "a", "n", "i", "c">>,
                   <<"d", "i", "c", "e", "d">>, <<"c", "h", "o", "p", "p", "e", "d">>>>
        listed(names, drawn) ==
            [names |-> names,
             details |->
                List([i \in 1..Len(names) |->
                    [amount |-> 1 + drawn.value[3 * i - 2],
                     unit |-> units[drawn.value[3 * i - 1] + 1],
                     notes |-> notes[drawn.value[3 * i] + 1]]]),
             state |-> drawn.state]
        draw(names) ==
            listed(names,
                   Draws(List([j \in 1..(3 * Len(names)) |-> IF j % 3 = 1 THEN 4 ELSE 5]), 1,
                         3 * Len(names), state))
    IN  draw(Take(SelectSeq(DictGet(base_ingredients, recipe_type,
                                    <<<<"i", "n", "g", "r", "e", "d", "i", "e", "n", "t", "1">>,
                                            <<"i", "n", "g", "r", "e", "d", "i", "e", "n", "t",
                                            "2">>, <<"i", "n", "g", "r", "e", "d", "i", "e", "n",
                                            "t", "3">>>>),
                            LAMBDA ing : ~excluded(ing)),
                  6))

\* int(x) for a float 1 <= x < 2^30 written <<n, d, r, 0>>: the integer part
\* of n/d, or n - 1 when n/d is an integer and x lies below it.
Truncated(x) ==
    IF x[2] # 1 \/ x[1] = 0 THEN x[1] \div x[2]
    ELSE IF x[3] < 0 THEN x[1] - 1 ELSE x[1]

\* The nutrient values of a generated recipe: int(calories * ratio / per_gram)
\* with the product and the quotient rounded as doubles before the
\* truncation; the calories, fiber, sodium and sugar are drawn in this order.
\* And the state after the draws.
_generate_nutrition_info(recipe_type, dietary_restrictions, state) ==
    LET share(calories, ratio, per_gram) ==
            Truncated(RDiv(RMul(Rat(calories, 1), ratio), Rat(per_gram, 1)))
        info(calories, protein_ratio, carb_ratio, fat_ratio, drawn) ==
            [value |->
                [calories |-> calories,
                 protein |-> share(calories, protein_ratio, 4),
                 carbohydrates |-> share(calories, carb_ratio, 4),
                 fat |-> share(calories, fat_ratio, 9),
                 fiber |-> 2 + drawn.value[2],
                 sodium |-> 200 + drawn.value[3],
                 sugar |-> 5 + drawn.value[4]],
             state |-> drawn.state]
        ratios(cal_range, drawn) ==
            info(cal_range[1] + drawn.value[1],
                 IF ~InList("vegetarian", dietary_restrictions) THEN Rat(15, 100)
                 ELSE Rat(10, 100),
                 IF ~InList("keto", dietary_restrictions) THEN Rat(55, 100) ELSE Rat(20, 100),
                 IF ~InList("keto", dietary_restrictions) THEN Rat(30, 100) ELSE Rat(70, 100),
                 drawn)
        draw(cal_range) ==
            ratios(cal_range,
                   Draws(<<cal_range[2] - cal_range[1] + 1, 7, 601, 21>>, 1, 4, state))
    IN  draw(DictGet(base_calories, recipe_type, <<200, 500>>))

_generate_instructions(ingredient_names) ==
    Take(<<<<"P", "r", "e", "p", "a", "r", "e", " ", "a", "l", "l", " ", "i", "n", "g", "r", "e",
            "d", "i", "e", "n", "t", "s", " ", "a", "s", " ", "s", "p", "e", "c", "i", "f", "i",
            "e", "d">>,
           <<"H", "e", "a", "t", " ", "c", "o", "o", "k", "i", "n", "g", " ", "s", "u", "r", "f",
                   "a", "c", "e", " ", "t", "o", " ", "m", "e", "d", "i", "u", "m", " ", "t", "e",
                   "m", "p", "e", "r", "a", "t", "u", "r", "e">>,
           <<"C", "o", "m", "b", "i", "n", "e", " ", "i", "n", "g", "r", "e", "d", "i", "e", "n",
                   "t", "s", " ", "i", "n", " ", "t", "h", "e", " ", "s", "p", "e", "c", "i", "f",
                   "i", "e", "d", " ", "o", "r", "d", "e", "r">>,
           <<"C", "o", "o", "k", " ", "u", "n", "t", "i", "l", " ", "d", "e", "s", "i", "r", "e",
                   "d", " ", "c", "o", "n", "s", "i", "s", "t", "e", "n", "c", "y", " ", "i", "s",
                   " ", "r", "e", "a", "c", "h", "e", "d">>,
           <<"L", "e", "t", " ", "r", "e", "s", "t", " ", "f", "o", "r", " ", "a", " ", "f", "e",
                   "w", " ", "m", "i", "n", "u", "t", "e", "s", " ", "b", "e", "f", "o", "r", "e",
                   " ", "s", "e", "r", "v", "i", "n", "g">>,
           <<"G", "a", "r", "n", "i", "s", "h", " ", "a", "n", "d", " ", "s", "e", "r", "v", "e",
                   " ", "i", "m", "m", "e", "d", "i", "a", "t", "e", "l", "y">>>>,
         Len(ingredient_names) + 1)

\* The recipe created in `state`, and the state after its draws: the cuisine,
\* the sampled tags, the ingredients, the nutrient values, and the prep time,
\* cook time, servings and difficulty in the order of the returned
\* dictionary.
_create_mock_recipe(recipe_id, recipe_type, keywords, dietary_restrictions, state) ==
    LET health_benefits(dietary_tags) ==
            (IF InList("diabetes_friendly", dietary_tags)
             THEN <<"diabetes_friendly", "blood_sugar_control">> ELSE <<>>)
            \o (IF InList("heart_healthy", dietary_tags)
                THEN <<"heart_healthy", "cholesterol_lowering">> ELSE <<>>)
            \o (IF InList("vegetarian", dietary_tags) THEN <<"plant_based">> ELSE <<>>)
            \o (IF InList("vegan", dietary_tags) THEN <<"plant_based", "dairy_free">> ELSE <<>>)
        recipe(cuisine, dietary_tags, generated, nutrition_info, drawn) ==
            [recipe |->
                [id |-> recipe_id,
                 title |-> join(<<" ">>, <<title(recipe_type)>>
                                      \o (IF keywords # <<>> THEN <<title(keywords[1])>>
                                          ELSE <<>>)
                                      \o (IF cuisine # <<>> THEN <<title(cuisine) \o <<" ", "S",
                                              "t", "y", "l", "e">>>>
                                          ELSE <<>>)),
                 description |-> <<"A", " ", "d", "e", "l", "i", "c", "i", "o", "u", "s",
                         " ">> \o recipe_type \o <<" ", "r", "e", "c", "i", "p", "e", " ", "w",
                         "i", "t", "h", " ">>
                                 \o cuisine \o <<" ", "i", "n", "f", "l", "u", "e", "n", "c", "e",
                                         "s">>,
                 cuisine_type |-> cuisine,
                 dietary_tags |-> dietary_tags,
                 health_benefits |-> health_benefits(dietary_tags),
                 ingredients |-> generated.names,
                 ingredient_details |-> generated.details,
                 instructions |-> _generate_instructions(generated.names),
                 nutritional_info |-> nutrition_info.value,
                 prep_time |-> 10 + drawn.value[1],
                 cook_time |-> 15 + drawn.value[2],
                 servings |-> 2 + drawn.value[3],
                 difficulty |-> <<<<"e", "a", "s", "y">>, <<"m", "e", "d", "i", "u", "m">>,
                         <<"h", "a", "r", "d">>>>[drawn.value[4] + 1],
                 source |-> <<"d", "y", "n", "a", "m", "i", "c", "_", "g", "e", "n", "e", "r", "a",
                         "t", "i", "o", "n">>],
             state |-> drawn.state]
        finish(cuisine, dietary_tags, generated, nutrition_info) ==
            recipe(cuisine, dietary_tags, generated, nutrition_info,
                   Draws(<<36, 46, 5, 3>>, 1, 4, nutrition_info.state))
        generate(cuisine, dietary_tags, generated) ==
            finish(cuisine, dietary_tags, generated,
                   _generate_nutrition_info(recipe_type, dietary_restrictions, generated.state))
        tagged(cuisine, sampled) ==
            generate(cuisine, sampled.value \o dietary_restrictions,
                     _generate_ingredients(recipe_type, dietary_restrictions, sampled.state))
        sampling(cuisine, available_dietary) ==
            tagged(cuisine.value,
                   sample(available_dietary,
                          IF Len(available_dietary) < 2 THEN Len(available_dietary) ELSE 2,
                          cuisine.state))
    IN  sampling(choice(cuisines, state),
                 SelectSeq(dietary_options, LAMBDA opt : ~InList(opt, dietary_restrictions)))

\* One pass of the loop of _generate_mock_recipes, for number i: the recipes
\* created before with the new one appended, and the state after it.
MockRecipe(i, keywords, dietary_restrictions, created) ==
    LET appended(recipe) ==
            [recipes |-> Append(created.recipes, recipe.recipe), state |-> recipe.state]
        create(recipe_type, recipe_keywords) ==
            appended(_create_mock_recipe(
                         <<"d", "y", "n", "a", "m", "i", "c", "_", "r", "e",
                           "c", "i", "p", "e", "_">> \o str(i + 1),
                         recipe_type.value[1], recipe_keywords.value,
                         dietary_restrictions, recipe_keywords.state))
        typed(recipe_type) ==
            create(recipe_type,
                   IF keywords # <<>>
                   THEN [value |-> Take(keywords, 3), state |-> recipe_type.state]
                   ELSE LET values(chosen) ==
                                [value |-> chosen.value[2], state |-> chosen.state]
                        IN  values(choice(categories, recipe_type.state)))
    IN  typed(choice(categories, created.state))

RECURSIVE MockRecipes(_, _, _, _, _)
\* The loop of _generate_mock_recipes from number i on: `created` holds the
\* recipes created before and the state after them.
MockRecipes(i, max_recipes, keywords, dietary_restrictions, created) ==
    IF i >= max_recipes THEN created
    ELSE Call("MockRecipes", <<i + 1, max_recipes, keywords, dietary_restrictions,
                               MockRecipe(i, keywords, dietary_restrictions, created)>>)

\* The recipes generated in `state`, and the state after them.
_generate_mock_recipes(query, dietary_restrictions, max_recipes, state) ==
    IF query # <<>>
    THEN Call("MockRecipes", <<0, max_recipes, split(lower(query)), dietary_restrictions,
                               [recipes |-> <<>>, state |-> state]>>)
    ELSE LET loop(keywords) ==
                 Call("MockRecipes", <<0, max_recipes, keywords.value[2], dietary_restrictions,
                                       [recipes |-> <<>>, state |-> keywords.state]>>)
         IN  loop(choice(categories, state))

generate_recipes(query, dietary_restrictions, allergies, health_conditions, n_recipes, state) ==
    _generate_mock_recipes(query, dietary_restrictions, n_recipes, state)

\* self.sources: for each name whether the source is enabled
sources == [spoonacular |-> FALSE, edamam |-> FALSE, mock_dynamic |-> TRUE]

\* RecipeIntegrator.fetch_recipes_from_api when the generator does not
\* raise: no recipe and no draw for a source that is unknown or disabled, the
\* generated recipes and the state after them for any other source.
fetch_recipes_from_api(source_name, query, dietary_restrictions, max_recipes, state) ==
    IF source_name \notin DOMAIN sources \/ ~sources[source_name]
    THEN [recipes |-> <<>>, state |-> state]
    ELSE _generate_mock_recipes(query, dietary_restrictions, max_recipes, state)

\* ------------------------------------------------------------------------
\* The pipeline (src/src/rag_pipeline.py)
\* ------------------------------------------------------------------------

\* The index constraints of a request, in the order they are added; the
\* empty list is None.
_build_filter_dict(dietary_restrictions, allergies, health_conditions) ==
    LET health_benefits_mapping ==
            << <<"diabetes", <<"diabetes_friendly", "blood_sugar_control">> >>,
               <<"heart_disease", <<"heart_healthy", "cholesterol_lowering">> >>,
               <<"hypertension", <<"blood_pressure_control", "heart_healthy">> >>,
               <<"celiac_disease", <<"celiac_safe", "gluten_free">> >>,
               <<"lactose_intolerance", <<"lactose_intolerance_safe", "dairy_free">> >>,
               <<"obesity", <<"weight_management", "low_carb">> >> >>
        constraint(key, operator, value) ==
            IF value # <<>> THEN << <<key, operator, value>> >> ELSE <<>>
    IN  constraint("dietary_tags", "$in", dietary_restrictions)
        \o constraint("ingredients", "$not_contains",
                      Flatten(List([a \in 1..Len(allergies) |->
                                       GetList(dietary_guidelines.allergies, allergies[a],
                                               "incompatible_ingredients")])))
        \o constraint("health_benefits", "$in",
                      Flatten(List([c \in 1..Len(health_conditions) |->
                                       DictGet(health_benefits_mapping, health_conditions[c],
                                               <<>>)])))

\* The recipe of the corpus whose title the text starts with, or None.
_find_recipe_by_text(text, corpus) ==
    LET find(title_part) ==
            IF Len(title_part) >= 7 /\ SubSeq(title_part, 1, 7) = <<"T", "i", "t", "l", "e", ":",
                    " ">>
            THEN LET named(found) == IF found = <<>> THEN None ELSE found[1]
                 IN  named(SelectSeq(corpus,
                                     LAMBDA recipe :
                                        /\ "title" \in DOMAIN recipe
                                        /\ recipe.title = SubSeq(title_part, 8, Len(title_part))))
            ELSE None
    IN  IF ~Contains(<<" ", "|", " ">>, text) THEN None
        ELSE find(SplitAt(text, <<" ", "|", " ">>, 1)[1])

_calculate_overall_score(search_score, compatibility_score) ==
    FAdd(FMul(search_score, Rat(6, 10)), FMul(compatibility_score, Rat(4, 10)))

RECURSIVE Max(_)
\* max(l) for a list of numbers that is not empty
Max(l) == IF Len(l) = 1 THEN l[1] ELSE RMax(l[1], Call("Max", <<Tail(l)>>))

\* The entries the loop over the index hits appends: one for every hit whose
\* recipe the corpus holds.
AnalyzedHits(search_results, corpus, dietary_restrictions, allergies, health_conditions) ==
    LET entry(recipe, compatibility, search_score, k) ==
            [recipe |-> recipe,
             compatibility |-> compatibility,
             search_score |-> search_score,
             overall_score |-> Call("_calculate_overall_score", <<search_score,
                                                                  compatibility.overall_score>>),
             distance |-> search_results.distances[k],
             metadata |-> search_results.metadatas[k]]
        analyzed(recipe, k) ==
            IF recipe = None THEN <<>>
            ELSE <<entry(recipe,
                         Call("analyze_recipe_compatibility", <<recipe, dietary_restrictions, allergies,
                                                                health_conditions>>),
                         FSub(One, RDiv(search_results.distances[k],
                                        Call("Max", <<search_results.distances>>))),
                         k)>>
    IN  Flatten(List([k \in 1..Len(search_results.documents) |->
                         analyzed(_find_recipe_by_text(search_results.documents[k], corpus), k)]))

\* The loop with the greatest distance taken before it: max() of an empty
\* list raises.
EagerMaxStaticResults(search_results, corpus, dietary_restrictions, allergies, health_conditions) ==
    IF search_results.distances = <<>> THEN [raised |-> "ValueError", results |-> <<>>]
    ELSE [raised |-> "",
          results |-> Call("AnalyzedHits", <<search_results, corpus, dietary_restrictions, allergies,
                                             health_conditions>>)]

\* The loop over the index hits: the greatest distance is taken inside the
\* loop, so that nothing is raised when there is no hit.
StaticResults(search_results, corpus, dietary_restrictions, allergies, health_conditions) ==
    [raised |-> "",
     results |-> Call("AnalyzedHits", <<search_results, corpus, dietary_restrictions, allergies,
                                        health_conditions>>)]

\* The generated recipes of a search, and the state after them.
_get_dynamic_recipes(query, dietary_restrictions, allergies, health_conditions, n_results, state) ==
    LET first(generated) ==
            [recipes |-> Take(generated.recipes, n_results), state |-> generated.state]
    IN  first(generate_recipes(query, dietary_restrictions, allergies, health_conditions,
                               n_results, state))

\* The entries of the generated recipes.
DynamicResults(dynamic_recipes, dietary_restrictions, allergies, health_conditions) ==
    LET entry(dynamic_recipe, compatibility) ==
            [recipe |-> dynamic_recipe,
             compatibility |-> compatibility,
             search_score |-> Rat(8, 10),
             overall_score |-> FMul(compatibility.overall_score, Rat(8, 10)),
             distance |-> Rat(2, 10),
             metadata |->
                [title |-> dynamic_recipe.title,
                 cuisine_type |-> dynamic_recipe.cuisine_type,
                 dietary_tags |-> dynamic_recipe.dietary_tags,
                 health_benefits |-> dynamic_recipe.health_benefits,
                 calories |-> Get0(dynamic_recipe.nutritional_info, "calories"),
                 protein |-> Get0(dynamic_recipe.nutritional_info, "protein"),
                 carbohydrates |-> Get0(dynamic_recipe.nutritional_info, "carbohydrates"),
                 fat |-> Get0(dynamic_recipe.nutritional_info, "fat"),
                 fiber |-> Get0(dynamic_recipe.nutritional_info, "fiber")]]
        analyzed(dynamic_recipe) ==
            entry(dynamic_recipe,
                  Call("analyze_recipe_compatibility", <<dynamic_recipe, dietary_restrictions, allergies,
                                                         health_conditions>>))
    IN  List([k \in 1..Len(dynamic_recipes) |-> analyzed(dynamic_recipes[k])])

\* Every entry kept.
KeepAll(analyzed_results) == analyzed_results

\* The entries of a sorted list that are the first ones with their title.
Unique(analyzed_results) ==
    LET pick(firsts) == List([k \in 1..Len(firsts) |-> analyzed_results[firsts[k]]])
    IN  pick(Ascending({i \in 1..Len(analyzed_results) :
                           \A j \in 1..(i - 1) :
                              analyzed_results[j].recipe.title
                              # analyzed_results[i].recipe.title}))

\* RAGPipeline.search_recipes on a pipeline whose index is `store` and
\* whose data loader holds corpus, the random source being in `state`: what
\* the call returns (or that it raises), and the state of the random source
\* after it.
search_recipes(store, corpus, query, dietary_restrictions, allergies, health_conditions, n_results, include_dynamic, state) ==
    LET response(unique_results, after) ==
            [response |->
                [raised |-> "",
                 results |-> Take(unique_results, n_results),
                 total_found |-> Len(unique_results),
                 query |-> query,
                 filters_applied |-> [dietary_restrictions |-> dietary_restrictions,
                                      allergies |-> allergies,
                                      health_conditions |-> health_conditions],
                 dynamic_recipes_included |-> include_dynamic],
             state |-> after]
        sort(analyzed_results, after) ==
            CASE Evaluated(analyzed_results) ->
            response(Call("Unique", <<Call("Sorted", <<analyzed_results,
                                                       List([k \in 1..Len(analyzed_results) |->
                                                                analyzed_results[k].overall_score])>>)>>),
                     after)
        extend(static, dynamic) ==
            CASE Evaluated(dynamic) ->
            sort(static \o Call("DynamicResults", <<dynamic.recipes, dietary_restrictions, allergies,
                                                    health_conditions>>),
                 dynamic.state)
        generate(static) ==
            IF static.raised # ""
            THEN [response |-> [raised |-> static.raised], state |-> state]
            ELSE IF include_dynamic
                 THEN extend(static.results,
                             Call("_get_dynamic_recipes", <<query, dietary_restrictions, allergies,
                                                            health_conditions, n_results, state>>))
                 ELSE sort(static.results, state)
        analyze(search_results) ==
            IF search_results.raised # ""
            THEN [response |-> [raised |-> search_results.raised], state |-> state]
            ELSE generate(Call("StaticResults", <<search_results, corpus, dietary_restrictions,
                                                  allergies, health_conditions>>))
    IN  analyze(Call("StoreSearch", <<store, query, n_results * 2,
                                      _build_filter_dict(dietary_restrictions, allergies,
                                                         health_conditions)>>))

-----------------------------------------------------------------------------
\* ------------------------------------------------------------------------
\* The corpus and the requests
\* ------------------------------------------------------------------------

\* recipes.json as DataProcessor.load_recipes returns it.  A nutrient that a
\* recipe does not list is absent from the DOMAIN of its nutritional_info.
recipes ==
    << [id |-> "r1", title |-> <<"T", "o", "f", "u", " ", "r", "i", "c", "e">>,
        dietary_tags |-> <<"vegetarian", "vegan">>,
        health_benefits |-> <<"heart_healthy">>,
        ingredients |-> <<<<"t", "o", "f", "u">>, <<"s", "o", "y", " ", "s", "a", "u", "c", "e">>, <<"r", "i", "c", "e">>>>,
        nutritional_info |-> [n \in {"calories", "protein", "carbohydrates", "fat",
                                     "fiber", "sodium", "sugar"} |->
            CASE n = "calories" -> 300 [] n = "protein" -> 20
              [] n = "carbohydrates" -> 30 [] n = "fat" -> 10
              [] n = "fiber" -> 5 [] n = "sodium" -> 400 [] n = "sugar" -> 3]],
       [id |-> "r2", title |-> <<"b", "e", "e", "f", " ", "r", "i", "c", "e">>,
        dietary_tags |-> <<>>,
        health_benefits |-> <<>>,
        ingredients |-> <<<<"b", "e", "e", "f">>, <<"r", "i", "c", "e">>>>,
        nutritional_info |-> [n \in {"calories", "protein", "fat", "sodium", "sugar"} |->
            CASE n = "calories" -> 500 [] n = "protein" -> 45
              [] n = "fat" -> 20 [] n = "sodium" -> 900 [] n = "sugar" -> 0]],
       [id |-> "r3", title |-> <<"l", "e", "n", "t", "i", "l", " ", "p", "e", "a">>,
        dietary_tags |-> <<"vegetarian">>,
        health_benefits |-> <<"diabetes_friendly", "low_sodium">>,
        ingredients |-> <<<<"l", "e", "n", "t", "i", "l">>, <<"p", "e", "a">>>>,
        nutritional_info |-> [n \in {"calories", "protein", "fiber"} |->
            CASE n = "calories" -> 200 [] n = "protein" -> 12 [] n = "fiber" -> 8]],
       [id |-> "r4", title |-> <<"o", "a", "t", " ", "m", "i", "l", "k", " ", "r", "i", "c", "e">>,
        dietary_tags |-> <<"vegan">>,
        health_benefits |-> <<"heart_healthy", "blood_sugar_control">>,
        ingredients |-> <<<<"o", "a", "t", " ", "m", "i", "l", "k">>, <<"r", "i", "c", "e">>>>,
        nutritional_info |-> [n \in {"calories", "protein", "carbohydrates", "fat",
                                     "fiber", "sodium", "sugar"} |->
            CASE n = "calories" -> 250 [] n = "protein" -> 6
              [] n = "carbohydrates" -> 45 [] n = "fat" -> 4
              [] n = "fiber" -> 4 [] n = "sodium" -> 0 [] n = "sugar" -> 9]] >>

\* A recipe without ingredients: the scores of the five health conditions of
\* ManyConditions for it are 1.0, 0.4, 0.4, 0.8400000000000001 and
\* 0.36000000000000004, which add up to 2.9999999999999996.
broth ==
    [id |-> "r5", title |-> <<"b", "r", "o", "t", "h">>,
     dietary_tags |-> <<>>,
     health_benefits |-> <<"heart_healthy", "low_sodium">>,
     ingredients |-> <<>>,
     nutritional_info |-> [n \in {"sugar", "protein"} |-> 5]]

\* Restrictions a profile repeats: eight, and one more.  The additions and
\* subtractions of a substitute's score leave 0.5000000000000001 after the
\* eight and 0.7000000000000002 after the nine for a vegetarian substitute
\* that "vegan" excludes.
RepeatedRestrictions ==
    <<"vegan", "vegan", "vegetarian", "vegetarian", "vegetarian", "vegan", "vegetarian",
      "vegetarian">>
MoreRepeatedRestrictions == RepeatedRestrictions \o <<"vegetarian">>

\* The lists of keys a request is made with ("paleo", "latex", "gout" and
\* "x2" are keys the guideline tables do not hold; None is handled as the
\* empty list).
RestrictionLists ==
    {<<>>, <<"vegetarian">>, <<"vegan">>, <<"vegetarian", "vegan">>, <<"paleo">>,
     <<"vegetarian", "paleo">>}
AllergyLists ==
    {<<>>, <<"soy">>, <<"peanut">>, <<"soy", "peanut">>, <<"latex">>,
     <<"soy", "latex">>, <<"dairy", "dairy">>}
HealthLists ==
    {<<>>, <<"diabetes">>, <<"kidney">>, <<"diabetes", "hypertension">>, <<"gout">>}
ManyConditions == <<"hypertension", "gout", "x2", "kidney", "diabetes">>

\* The ingredients substitutes are asked for.
SubstitutionQueries ==
    {<<"m", "i", "l", "k">>, <<"f", "r", "e", "s", "h", " ", "m", "i", "l", "k">>, <<"2", " ", "c", "u", "p", " ", "m", "i", "l", "k">>, <<"b", "e", "e", "f">>,
     <<"t", "o", "f", "u">>, <<"s", "t", "r", "a", "w", "b", "e", "r", "r", "y">>, <<"2", " ", "l", "e", "n", "t", "i", "l">>}

\* Ten goals none of the recipes reaches the half of.
TenGoals ==
    <<"calories", "protein", "carbohydrates", "fat", "fiber", "sodium", "sugar", "calcium",
      "iron", "potassium">>

\* The nutritional goals of a request: <<nutrient, target>> items.
TargetMaps ==
    {<<>>,
     << <<"protein", Rat(201, 10)>> >>,
     << <<"protein", Rat(199, 10)>> >>,
     List([k \in 1..Len(TenGoals) |-> <<TenGoals[k], Rat(2000, 1)>>]),
     << <<"protein", Rat(50, 1)>> >>,
     << <<"protein", Rat(25, 1)>> >>,
     << <<"protein", Rat(401, 20)>> >>,
     << <<"protein", Rat(10, 1)>> >>,
     << <<"fat", Rat(2, 1)>>, <<"sugar", Rat(0, 1)>> >>,
     << <<"protein", Rat(50, 1)>>, <<"fiber", Rat(25, 1)>> >>,
     << <<"fiber", Rat(5, 1)>>, <<"protein", Rat(22, 1)>> >>}

\* ------------------------------------------------------------------------
\* The pipelines and the search requests
\* ------------------------------------------------------------------------

\* The data directories a pipeline is constructed on.
DataDirs == <<"data_empty", "data_solo", "data">>

\* What RAGPipeline._initialize_vector_store adds to the index for each of
\* the data directories, and the vocabulary of the pipeline's new embedder
\* after it has encoded the directory's texts.
Initialized ==
    LET added(recipe_texts, recipe_metadata, encoded) ==
            [recipe_texts |-> recipe_texts,
             recipe_metadata |-> recipe_metadata,
             embeddings |-> encoded.embeddings,
             word_to_index |-> encoded.word_to_index]
        batch_encode(recipe_texts, recipe_metadata) ==
            added(recipe_texts, recipe_metadata, Call("encode_text", <<recipe_texts, <<>>>>))
        initialized(corpus) ==
            batch_encode(create_recipe_chunks(corpus), get_recipe_metadata(corpus))
    IN  [directory \in {DataDirs[d] : d \in 1..Len(DataDirs)} |->
            initialized(load_recipes(directory))]

\* The index of a pipeline constructed on a data directory when the persist
\* directory holds the index `stored`.
_initialize_vector_store(stored, directory) ==
    LET add(initialized) ==
            add_recipes(stored, initialized.recipe_texts, initialized.recipe_metadata,
                        initialized.embeddings)
    IN  add(Call("Initialized", <<>>)[directory])

\* The greatest number of entries the index is let grow to.
MaxDocuments == 6

\* The greatest number of entries the persist directory holds when one more
\* pipeline is constructed on it.
MaxPersisted == 3

QueryRice == <<"r", "i", "c", "e">>
QueryFour == <<"R", "i", "c", "e", " ", "b", "e", "e", "f", " ", "l", "e", "n", "t", "i", "l", " ",
        "s", "o", "u", "p">>
\* The query whose vector is the vector of the text of data_solo's recipe.
QueryLong ==
    <<"r", "i", "c", "e", " ", "r", "i", "c", "e", " ", "r", "i", "c", "e", " ", "r", "i", "c",
            "e", " ", "r", "i", "c", "e", " ", "r", "i", "c", "e", " ", "t", "o", "f", "u", " ",
            "t", "o", "f", "u", " ", "t", "o", "f", "u", " ", "t", "i", "t", "l", "e", " ", "d",
            "e", "s", "c", "r", "i", "p", "t", "i", "o", "n", " ", "c", "u", "i", "s", "i", "n",
            "e", " ", "t", "y", "p", "e", " ", "d", "i", "e", "t", "a", "r", "y", " ", "t", "a",
            "g", "s", " ", "v", "e", "g", "a", "n", " ", "h", "e", "a", "l", "t", "h", " ", "b",
            "e", "n", "e", "f", "i", "t", "s", " ", "i", "n", "g", "r", "e", "d", "i", "e", "n",
            "t", "s", " ", "i", "n", "s", "t", "r", "u", "c", "t", "i", "o", "n", "s", " ", "n",
            "u", "t", "r", "i", "t", "i", "o", "n", "a", "l", " ", "i", "n", "f", "o", " ", "c",
            "a", "l", "o", "r", "i", "e", "s", " ", "0", " ", "p", "r", "o", "t", "e", "i", "n",
            " ", "c", "a", "r", "b", "s", " ", "f", "a", "t", " ", "s", "o", "u", "p">>

SearchRequest(query, dietary_restrictions, allergies, health_conditions, n_results, include_dynamic) ==
    [query |-> query, dietary_restrictions |-> dietary_restrictions, allergies |-> allergies,
     health_conditions |-> health_conditions, n_results |-> n_results,
     include_dynamic |-> include_dynamic]

\* The search requests made.
SearchRequests ==
    {SearchRequest(QueryRice, <<>>, <<>>, <<>>, 2, TRUE),
     SearchRequest(QueryRice, <<>>, <<>>, <<>>, 2, FALSE),
     SearchRequest(QueryLong, <<>>, <<>>, <<>>, 1, FALSE),
     SearchRequest(QueryLong, <<>>, <<>>, <<>>, 2, TRUE),
     SearchRequest(QueryRice, <<>>, <<>>, <<>>, -1, TRUE),
     SearchRequest(QueryRice, <<>>, <<>>, <<>>, 0, TRUE),
     SearchRequest(<<>>, <<>>, <<>>, <<>>, 2, TRUE),
     SearchRequest(<<" ">>, <<>>, <<>>, <<>>, 1, TRUE),
     SearchRequest(QueryFour, <<"vegan">>, <<>>, <<>>, 2, TRUE),
     SearchRequest(QueryRice, <<>>, <<"soy">>, <<>>, 2, TRUE),
     SearchRequest(QueryRice, <<>>, <<>>, <<"hypertension">>, 2, FALSE),
     SearchRequest(QueryFour, <<"vegetarian">>, <<>>, <<"diabetes">>, 2, TRUE),
     SearchRequest(QueryRice, <<"paleo">>, <<"latex">>, <<"gout">>, 2, TRUE),
     SearchRequest(QueryFour, <<>>, <<>>, <<>>, 1, FALSE)}

\* The constraints the index is searched with directly.
StoreFilters ==
    {<<>>,
     << <<"dietary_tags", "$in", <<"vegan", "paleo">> >> >>,
     << <<"dietary_tags", "$not_contains", <<"vegan">> >>,
        <<"health_benefits", "$in", <<"heart_healthy">> >> >>}

\* ------------------------------------------------------------------------
\* Recommendations (src/src/rag_pipeline.py)
\* ------------------------------------------------------------------------

\* nutritional_goals.get(key) as a condition: the goal is given and not 0
Truthy(nutritional_goals, key) ==
    \E k \in 1..Len(nutritional_goals) :
        nutritional_goals[k][1] = key /\ nutritional_goals[k][2] # Zero

_build_search_query(preferences, nutritional_goals) ==
    LET part(key, words) == IF Truthy(nutritional_goals, key) THEN <<words>> ELSE <<>>
        joined(query_parts) ==
            IF query_parts # <<>> THEN join(<<" ">>, query_parts)
            ELSE <<"h", "e", "a", "l", "t", "h", "y", " ", "r", "e", "c", "i", "p", "e">>
    IN  joined(preferences
               \o part("high_protein", <<"h", "i", "g", "h", " ", "p", "r", "o", "t", "e", "i", "n">>)
               \o part("low_carb", <<"l", "o", "w", " ", "c", "a", "r", "b">>)
               \o part("low_fat", <<"l", "o", "w", " ", "f", "a", "t">>)
               \o part("high_fiber", <<"h", "i", "g", "h", " ", "f", "i", "b", "e", "r">>))

\* A faulty variant: the optimizer is called for every result, whether the
\* profile holds nutritional goals or not.
AlwaysOptimized(result, nutritional_goals, dietary_restrictions, allergies) ==
    ("nutrition_optimization" :>
        Call("optimize_recipe_nutrition", <<result.recipe, nutritional_goals,
                                            dietary_restrictions, allergies>>)) @@ result

\* The body of the loop over the search results: the result, with the
\* optimizer's record under 'nutrition_optimization' when the profile's
\* nutritional goals are a dictionary that is not empty.
Optimized(result, nutritional_goals, dietary_restrictions, allergies) ==
    IF nutritional_goals # <<>>
    THEN ("nutrition_optimization" :>
             Call("optimize_recipe_nutrition", <<result.recipe, nutritional_goals,
                                                 dietary_restrictions, allergies>>)) @@ result
    ELSE result

\* What get_personalized_recommendations does with what its search returned.
Recommended(searched, user_profile, search_query, n_recommendations, include_dynamic) ==
    IF searched.response.raised # "" THEN searched
    ELSE [response |->
            [raised |-> "",
             recommendations |->
                Take(List([k \in 1..Len(searched.response.results) |->
                              Optimized(searched.response.results[k],
                                        Get(user_profile, "nutritional_goals", <<>>),
                                        Get(user_profile, "dietary_restrictions", <<>>),
                                        Get(user_profile, "allergies", <<>>))]),
                     n_recommendations),
             user_profile |-> user_profile,
             search_query |-> search_query,
             dynamic_recipes_included |-> include_dynamic],
          state |-> searched.state]

\* RAGPipeline.get_personalized_recommendations on a pipeline whose index is
\* `store` and whose data loader holds corpus, the random source being in
\* `state`: what the call returns (or that it raises), and the state of the
\* random source after it.
get_personalized_recommendations(store, corpus, user_profile, n_recommendations, include_dynamic, state) ==
    Recommended(Call("search_recipes", <<store, corpus,
                                         _build_search_query(Get(user_profile, "preferences", <<>>),
                                                             Get(user_profile, "nutritional_goals", <<>>)),
                                         Get(user_profile, "dietary_restrictions", <<>>),
                                         Get(user_profile, "allergies", <<>>),
                                         Get(user_profile, "health_conditions", <<>>),
                                         n_recommendations * 2, include_dynamic, state>>),
                user_profile,
                _build_search_query(Get(user_profile, "preferences", <<>>),
                                    Get(user_profile, "nutritional_goals", <<>>)),
                n_recommendations, include_dynamic)

\* The profiles recommendations are asked for: a profile with preferences
\* alone, profiles with nutritional goals, and one with every key.
UserProfiles ==
    {[preferences |-> <<QueryRice>>],
     [preferences |-> <<QueryRice>>, nutritional_goals |-> <<>>,
      dietary_restrictions |-> <<"vegan">>],
     [preferences |-> <<QueryRice>>,
      nutritional_goals |-> << <<"protein", Rat(50, 1)>>, <<"fiber", Rat(25, 1)>> >>],
     [preferences |-> <<QueryRice, <<"b", "e", "e", "f">>>>,
      nutritional_goals |-> << <<"high_protein", One>>, <<"protein", Rat(50, 1)>> >>,
      dietary_restrictions |-> <<"vegetarian">>,
      allergies |-> <<"dairy", "dairy">>,
      health_conditions |-> <<"diabetes">>]}

\* recipe_metadata of add_recipes when the caller gives none
TextMetadata(recipe_texts) ==
    List([k \in 1..Len(recipe_texts) |-> [text |-> recipe_texts[k]]])

\* embeddings of add_recipes when the caller gives none
SimpleEmbeddings(recipe_texts) ==
    List([k \in 1..Len(recipe_texts) |-> Call("_text_to_simple_embedding", <<recipe_texts[k]>>)])

\* The arguments of the calls of add_recipes: an entry of the directory
\* "data" with the embedder's vector, as the pipeline adds it; a text alone;
\* an entry with a vector of two components, and one with a vector of one
\* component more than the query's.
Batches ==
    LET entry(k, embeddings) ==
            [recipe_texts |-> <<Call("Initialized", <<>>)["data"].recipe_texts[k]>>,
             recipe_metadata |-> <<Call("Initialized", <<>>)["data"].recipe_metadata[k]>>,
             embeddings |-> embeddings]
        text(recipe_texts) ==
            [recipe_texts |-> recipe_texts,
             recipe_metadata |-> TextMetadata(recipe_texts),
             embeddings |-> Call("SimpleEmbeddings", <<recipe_texts>>)]
    IN  {entry(1, <<Call("Initialized", <<>>)["data"].embeddings[1]>>),
         entry(3, <<Call("Initialized", <<>>)["data"].embeddings[3]>>),
         text(<<QueryRice>>),
         entry(2, << <<One, Zero>> >>),
         entry(1, <<Call("Initialized", <<>>)["data"].embeddings[1] \o <<Zero>>>>)}

Alphabet ==
    <<"a", "b", "c", "d", "e", "f", "g", "h", "i", "j", "k", "l", "m", "n", "o", "p", "q",
      "r", "s", "t", "u", "v", "w", "x">>

\* The description of the long recipe: twelve times "rice", then one word
\* of forty letters for each letter of Alphabet.
LongDescription ==
    join(<<" ">>, [k \in 1..12 |-> <<"r", "i", "c", "e">>]
                  \o [k \in 1..Len(Alphabet) |->
                         <<"s", "i", "m", "m", "e", "r">> \o [j \in 1..34 |-> Alphabet[k]]])

\* recipes.json of the data directory "data_long": one recipe whose text is
\* longer than a chunk.
long_recipes ==
    << [id |-> "l1",
        title |-> <<"L", "o", "n", "g", " ", "r", "i", "c", "e", " ", "s", "o", "u", "p">>,
        description |-> LongDescription,
        cuisine_type |-> <<"a", "s", "i", "a", "n">>,
        dietary_tags |-> <<"vegan">>,
        health_benefits |-> <<>>,
        ingredients |-> <<<<"r", "i", "c", "e">>, <<"g", "i", "n", "g", "e", "r">>>>,
        instructions |-> <<<<"s", "t", "e", "a", "m">>>>,
        nutritional_info |->
           [n \in {"calories", "protein"} |->
               CASE n = "calories" -> 300 [] n = "protein" -> 10]] >>

\* The data directories an index is built from.
IndexDirs == DataDirs \o <<"data_long">>

\* DataProcessor.load_recipes for the directories of IndexDirs
load_index_recipes(directory) ==
    IF directory = "data_long" THEN long_recipes ELSE load_recipes(directory)

\* What RAGPipeline._initialize_vector_store hands to add_recipes for each
\* directory of IndexDirs: the chunks, the metadata of the recipes and the
\* embeddings of the chunks.
IndexBatches ==
    LET added(recipe_texts, recipe_metadata, encoded) ==
            [recipe_texts |-> recipe_texts,
             recipe_metadata |-> recipe_metadata,
             embeddings |-> encoded.embeddings,
             word_to_index |-> encoded.word_to_index]
        batch_encode(recipe_texts, recipe_metadata) ==
            added(recipe_texts, recipe_metadata, Call("encode_text", <<recipe_texts, <<>>>>))
        initialized(corpus) ==
            batch_encode(create_recipe_chunks(corpus), get_recipe_metadata(corpus))
    IN  [directory \in Range(IndexDirs) |-> initialized(load_index_recipes(directory))]

\* ------------------------------------------------------------------------
\* The definitions reached through Call
\* ------------------------------------------------------------------------
\* The arguments are computed before the call, as Python does.
Call(f, a) ==
    CASE Evaluated(a) ->
    CASE f = "Rat" -> Quotient(a[1], a[2])
      [] f = "RAdd" -> Added(a[1], a[2])
      [] f = "RMul" -> Multiplied(a[1], a[2])
      [] f = "RDiv" -> Divided(a[1], a[2])
      [] f = "RLt" -> Less(a[1], a[2])
      [] f = "RLe" -> ~IsNaN(a[1]) /\ ~IsNaN(a[2]) /\ (a[1] = a[2] \/ Less(a[1], a[2]))
      [] f = "RMax" -> IF Less(a[1], a[2]) THEN a[2] ELSE a[1]
      [] f = "RMin" -> IF Less(a[2], a[1]) THEN a[2] ELSE a[1]
      [] f = "Sqrt" -> SquareRoot(a[1])
      [] f = "Rounded" -> Rounded(a[1], a[2], a[3], a[4])
      [] f = "Err" -> Err(a[1])
      [] f = "SAdd" -> SAdd(a[1], a[2])
      [] f = "_check_dietary_restrictions" -> _check_dietary_restrictions(a[1], a[2])
      [] f = "_check_allergies" -> _check_allergies(a[1], a[2])
      [] f = "_analyze_nutritional_content" -> _analyze_nutritional_content(a[1], a[2], a[3])
      [] f = "_check_health_conditions" -> _check_health_conditions(a[1], a[2])
      [] f = "_calculate_compatibility_score" -> _calculate_compatibility_score(a[1], a[2], a[3])
      [] f = "analyze_recipe_compatibility" -> analyze_recipe_compatibility(a[1], a[2], a[3], a[4])
      [] f = "_calculate_substitution_compatibility" -> _calculate_substitution_compatibility(a[1], a[2], a[3])
      [] f = "_calculate_nutritional_similarity" -> _calculate_nutritional_similarity(a[1], a[2])
      [] f = "_create_substitution_option" -> _create_substitution_option(a[1], a[2], a[3], a[4])
      [] f = "_find_ingredient_based_substitutions" -> _find_ingredient_based_substitutions(a[1], a[2], a[3], a[4])
      [] f = "find_substitutions" -> find_substitutions(a[1], a[2], a[3])
      [] f = "_find_nutrient_boost_suggestions" -> _find_nutrient_boost_suggestions(a[1], a[2], a[3])
      [] f = "_find_nutrient_reduction_suggestions" -> _find_nutrient_reduction_suggestions(a[1], a[2], a[3], a[4])
      [] f = "_calculate_optimization_score" -> _calculate_optimization_score(a[1], a[2])
      [] f = "optimize_recipe_nutrition" -> optimize_recipe_nutrition(a[1], a[2], a[3], a[4])
      [] f = "_text_to_embedding" -> _text_to_embedding(a[1], a[2])
      [] f = "encode_text" -> encode_text(a[1], a[2])
      [] f = "_text_to_simple_embedding" -> _text_to_simple_embedding(a[1])
      [] f = "_cosine_similarity" -> _cosine_similarity(a[1], a[2])
      [] f = "StoreSearch" -> StoreSearch(a[1], a[2], a[3], a[4])
      [] f = "_calculate_overall_score" -> _calculate_overall_score(a[1], a[2])
      [] f = "_get_dynamic_recipes" -> _get_dynamic_recipes(a[1], a[2], a[3], a[4], a[5], a[6])
      [] f = "search_recipes" -> search_recipes(a[1], a[2], a[3], a[4], a[5], a[6], a[7], a[8], a[9])
      [] f = "_initialize_vector_store" -> _initialize_vector_store(a[1], a[2])
      [] f = "get_personalized_recommendations" -> get_personalized_recommendations(a[1], a[2], a[3], a[4], a[5], a[6])
      [] f = "TargetMaps" -> TargetMaps
      [] f = "Initialized" -> Initialized
      [] f = "Batches" -> Batches
      [] f = "IndexBatches" -> IndexBatches
      [] f = "UserProfiles" -> UserProfiles
      [] f = "SimpleEmbeddings" -> SimpleEmbeddings(a[1])
      [] f = "MockRecipes" -> MockRecipes(a[1], a[2], a[3], a[4], a[5])
      [] f = "SumFrom" -> SumFrom(a[1], a[2], a[3])
      [] f = "Repeated" -> Repeated(a[1], a[2], a[3])
      [] f = "RestrictionScore" -> RestrictionScore(a[1], a[2], a[3], a[4], a[5])
      [] f = "ReductionCandidates" -> ReductionCandidates(a[1], a[2], a[3], a[4], a[5])
      [] f = "Max" -> Max(a[1])
      [] f = "DynamicResults" -> DynamicResults(a[1], a[2], a[3], a[4])
      [] f = "StaticResults" -> StaticResults(a[1], a[2], a[3], a[4], a[5])
      [] f = "AnalyzedHits" -> AnalyzedHits(a[1], a[2], a[3], a[4], a[5])
      [] f = "Unique" -> Unique(a[1])
      [] f = "Sorted" -> Sorted(a[1], a[2])

\* ------------------------------------------------------------------------
\* The state machine: one synchronous call at a time
\* ------------------------------------------------------------------------

VARIABLES
    pc,            \* "idle", or "done" when the call in `call` has returned `out`,
                   \* "reseeded" when the caller has seeded the random source again
                   \* to repeat it, "again" when the repeated call has returned `out`
    call,          \* the operation called and its arguments
    out,           \* what the call returned
    previous,      \* what the call returned the first time, when it is repeated
    vector_store,  \* the pipeline's index: documents, metadatas, embeddings, ids
    persisted,     \* the index that vector_data.pkl of the persist directory holds
    data_dir,      \* the data directory of the pipeline's data loader
    random_state,  \* the state of the module random
    embedding_model  \* the embedder: its vocabulary, the words in the order of their index

pipeline == <<vector_store, persisted, data_dir, random_state, embedding_model>>

vars == <<pc, call, out, previous, vector_store, persisted, data_dir, random_state,
         embedding_model>>

\* No call is under way.
Idle ==
    /\ pc = "idle"
    /\ call = None
    /\ out = None
    /\ previous = None

\* RAGPipeline("data_empty") has been constructed in a working directory
\* without persist directory.
Init ==
    /\ Idle
    /\ data_dir = "data_empty"
    /\ vector_store = Call("_initialize_vector_store", <<EmptyStore, "data_empty">>)
    /\ persisted = vector_store
    /\ random_state = <<1, 0>>
    /\ embedding_model = [word_to_index |-> Call("Initialized", <<>>)["data_empty"].word_to_index]

\* The analyses asked for, <<recipe, dietary_restrictions, allergies,
\* health_conditions>>: every profile for the recipes of the corpus, and the
\* health conditions alone for the recipe without ingredients.
AnalysisRequests ==
    (Range(recipes) \X RestrictionLists \X AllergyLists \X HealthLists)
    \cup ({broth} \X {<<>>} \X {<<>>} \X (HealthLists \cup {ManyConditions}))

\* RAGPipeline.analyze_recipe_compatibility
AnalyzeRecipeCompatibility ==
    /\ pc = "idle"
    /\ \E request \in AnalysisRequests :
          /\ call' = [op |-> "analyze", recipe |-> request[1],
                      dietary_restrictions |-> request[2],
                      allergies |-> request[3],
                      health_conditions |-> request[4]]
          /\ out' = Call("analyze_recipe_compatibility", <<request[1], request[2],
                                                           request[3], request[4]>>)
    /\ pc' = "done"
    /\ UNCHANGED <<previous, pipeline>>

\* The substitutions asked for, <<ingredient, dietary_restrictions,
\* allergies>>: every profile for the ingredients of SubstitutionQueries,
\* the repeated restrictions for the milks, and for the beef the restriction
\* that both excludes and tags one of its substitutes.
SubstitutionRequests ==
    (SubstitutionQueries \X RestrictionLists \X AllergyLists)
    \cup ({<<"w", "h", "o", "l", "e", " ", "m", "i", "l", "k">>, <<"m", "i", "l", "k">>}
          \X {RepeatedRestrictions, MoreRepeatedRestrictions} \X {<<>>})
    \cup ({<<"b", "e", "e", "f">>}
          \X {<<"keto">>, <<"keto", "vegan">>, <<"vegetarian", "keto", "keto">>}
          \X {<<>>, <<"soy">>})

\* RAGPipeline.get_ingredient_substitutions
GetIngredientSubstitutions ==
    /\ pc = "idle"
    /\ \E request \in SubstitutionRequests :
          LET ingredient == request[1]
              dietary_restrictions == request[2]
              allergies == request[3]
              response(substitutions) ==
                  [original_ingredient |-> ingredient,
                   substitutions |-> substitutions,
                   total_options |-> Len(substitutions)]
          IN  /\ call' = [op |-> "substitute", ingredient |-> ingredient,
                          dietary_restrictions |-> dietary_restrictions,
                          allergies |-> allergies]
              /\ out' = response(Call("find_substitutions", <<ingredient, dietary_restrictions,
                                                              allergies>>))
    /\ pc' = "done"
    /\ UNCHANGED <<previous, pipeline>>

\* SubstitutionEngine.optimize_recipe_nutrition
OptimizeRecipeNutrition ==
    /\ pc = "idle"
    /\ \E recipe \in Range(recipes), target_nutrients \in Call("TargetMaps", <<>>),
          dietary_restrictions \in {<<>>, <<"vegan">>, MoreRepeatedRestrictions},
          allergies \in {<<>>, <<"dairy", "dairy">>} :
          /\ call' = [op |-> "optimize", recipe |-> recipe,
                      target_nutrients |-> target_nutrients,
                      dietary_restrictions |-> dietary_restrictions,
                      allergies |-> allergies]
          /\ out' = Call("optimize_recipe_nutrition", <<recipe, target_nutrients,
                                                        dietary_restrictions, allergies>>)
    /\ pc' = "done"
    /\ UNCHANGED <<previous, pipeline>>

\* The caller takes the result; the pipeline waits for the next call.
Return ==
    /\ pc \in {"done", "again"}
    /\ pc' = "idle"
    /\ call' = None
    /\ out' = None
    /\ previous' = None
    /\ UNCHANGED pipeline

Next ==
    \/ AnalyzeRecipeCompatibility
    \/ GetIngredientSubstitutions
    \/ OptimizeRecipeNutrition
    \/ Return

Spec == Init /\ [][Next]_vars

\* ------------------------------------------------------------------------
\* The state machine of the searches: pipelines are constructed one after
\* the other in one working directory, the last one is the one called
\* ------------------------------------------------------------------------

\* A pipeline has been constructed on one of the data directories in a
\* working directory without persist directory; the random source, seeded
\* by the system, is in any state.
PipelineInit ==
    /\ Idle
    /\ data_dir \in Range(DataDirs)
    /\ vector_store = Call("_initialize_vector_store", <<EmptyStore, data_dir>>)
    /\ persisted = vector_store
    /\ random_state \in {<<s, 0>> : s \in 1..MaxSeeds}
    /\ embedding_model = [word_to_index |-> Call("Initialized", <<>>)[data_dir].word_to_index]

\* RAGPipeline(d): the index is loaded from the persist directory, the
\* texts of the data directory are added to it and it is saved.
Construct ==
    /\ pc = "idle"
    /\ Len(persisted.documents) <= MaxPersisted
    /\ \E d \in Range(DataDirs) :
          /\ Len(Call("_initialize_vector_store", <<persisted, d>>).documents) <= MaxDocuments
          /\ vector_store' = Call("_initialize_vector_store", <<persisted, d>>)
          /\ data_dir' = d
          /\ embedding_model' = [word_to_index |-> Call("Initialized", <<>>)[d].word_to_index]
    /\ persisted' = vector_store'
    /\ UNCHANGED <<pc, call, out, previous, random_state>>

\* SimpleVectorStore.delete_collection: the emptied index is saved.
DeleteCollection ==
    /\ pc = "idle"
    /\ vector_store' = EmptyStore
    /\ persisted' = vector_store'
    /\ UNCHANGED <<pc, call, out, previous, data_dir, random_state, embedding_model>>

\* random.seed(Seeds[a])
Seed ==
    /\ pc = "idle"
    /\ \E a \in 1..MaxSeeds : random_state' = Reseeded(random_state, a)
    /\ UNCHANGED <<pc, call, out, previous, vector_store, persisted, data_dir, embedding_model>>

\* SimpleVectorStore.search_recipes, called on the pipeline's index
StoreSearchRecipes ==
    /\ pc = "idle"
    /\ \E query \in {QueryRice}, n_results \in {0, 2}, filter_dict \in StoreFilters :
          /\ call' = [op |-> "store_search", query |-> query, n_results |-> n_results,
                      filter_dict |-> filter_dict]
          /\ out' = Call("StoreSearch", <<vector_store, query, n_results, filter_dict>>)
    /\ pc' = "done"
    /\ UNCHANGED <<previous, pipeline>>

\* What a search request returns in the current state, and the state of the
\* random source after it, the random source being in `state` at the call.
Searched(request, state) ==
    Call("search_recipes", <<vector_store, load_recipes(data_dir), request.query,
                             request.dietary_restrictions, request.allergies,
                             request.health_conditions, request.n_results, request.include_dynamic,
                             state>>)

\* The state of the random source after the recipes of a search request have
\* been generated, the random source being in `state` before.
Drawn(request, state) ==
    IF request.include_dynamic
    THEN Call("_get_dynamic_recipes", <<request.query, request.dietary_restrictions, request.allergies,
                                        request.health_conditions, request.n_results, state>>).state
    ELSE state

\* A variant of search_recipes whose generator seeds the random source from
\* the system (random.seed()) before it draws: the caller's seed is lost.
SystemSeededSearchRecipes ==
    /\ pc \in {"idle", "reseeded"}
    /\ \E request \in SearchRequests, s \in 1..MaxSeeds :
          LET return(searched) ==
                  /\ out' = searched.response
                  /\ random_state' = searched.state
              state == IF request.include_dynamic THEN <<s, 0>> ELSE random_state
          IN  /\ pc = "reseeded" => request = call.request
              /\ ~request.include_dynamic => s = 1
              /\ random_state[2] <= MaxDraws
              /\ Drawn(request, state)[2] <= MaxDraws
              /\ call' = [op |-> "search", request |-> request, seed |-> random_state]
              /\ return(Searched(request, state))
    /\ pc' = IF pc = "idle" THEN "done" ELSE "again"
    /\ UNCHANGED <<previous, vector_store, persisted, data_dir, embedding_model>>

\* RAGPipeline.search_recipes, called when the recipes it generates take no
\* more than MaxDraws outputs of the random source: by a caller for the
\* first time, or by the caller that repeats its call.  The generator draws
\* from the random source in the state the caller left it in.
SearchRecipes ==
    /\ pc \in {"idle", "reseeded"}
    /\ \E request \in SearchRequests :
          LET return(searched) ==
                  /\ out' = searched.response
                  /\ random_state' = searched.state
          IN  /\ pc = "reseeded" => request = call.request
              /\ random_state[2] <= MaxDraws
              /\ Drawn(request, random_state)[2] <= MaxDraws
              /\ call' = [op |-> "search", request |-> request, seed |-> random_state]
              /\ return(Searched(request, random_state))
    /\ pc' = IF pc = "idle" THEN "done" ELSE "again"
    /\ UNCHANGED <<previous, vector_store, persisted, data_dir, embedding_model>>

\* After a search called on a random source that had just been seeded, the
\* caller keeps the response and seeds the random source with the same seed
\* (random.seed(Seeds[a])), to call the search again with the same arguments.
SeedAgain ==
    /\ pc = "done"
    /\ call.op = "search"
    /\ call.seed[2] = 0
    /\ random_state' = Reseeded(random_state, call.seed[1])
    /\ previous' = out
    /\ pc' = "reseeded"
    /\ UNCHANGED <<call, out, vector_store, persisted, data_dir, embedding_model>>

\* The search requests made while the generator fails.
SourceFailsRequests ==
    {SearchRequest(QueryRice, <<>>, <<>>, <<>>, 2, TRUE),
     SearchRequest(QueryRice, <<>>, <<>>, <<>>, -1, TRUE),
     SearchRequest(QueryFour, <<"vegan">>, <<>>, <<>>, 2, TRUE)}

\* RAGPipeline.search_recipes with include_dynamic = True when the generator
\* raises at its call, before it draws from the random source:
\* fetch_recipes_from_api catches what _generate_mock_recipes raises, but the
\* pipeline calls generate_recipes, and neither generate_recipes nor
\* _get_dynamic_recipes nor search_recipes has a handler, so the exception
\* leaves search_recipes after the index hits have been analysed.
SearchRecipesSourceFails ==
    /\ pc = "idle"
    /\ \E request \in SourceFailsRequests :
          LET propagate(search_results) ==
                  out' = [raised |-> IF search_results.raised # ""
                                     THEN search_results.raised ELSE "Exception"]
          IN  /\ request.include_dynamic
              /\ call' = [op |-> "search_source_fails", request |-> request]
              /\ propagate(Call("StoreSearch", <<vector_store, request.query, request.n_results * 2,
                                                 _build_filter_dict(request.dietary_restrictions,
                                                                    request.allergies,
                                                                    request.health_conditions)>>))
    /\ pc' = "done"
    /\ UNCHANGED <<previous, pipeline>>

\* The calls made on the generator itself, <<source_name, query,
\* dietary_restrictions, max_recipes>>: the enabled source (the second request
\* is the one of app.py with its smallest number of recipes), a disabled
\* source and a source the generator does not know.
FetchRequests ==
    {<<"mock_dynamic", QueryRice, <<>>, 2>>,
     <<"mock_dynamic", QueryRice, <<"vegan">>, 5>>,
     <<"mock_dynamic", QueryRice, <<>>, 0>>,
     <<"spoonacular", QueryRice, <<>>, 2>>,
     <<"tasty", QueryRice, <<"vegan">>, 2>>}

\* RecipeIntegrator.fetch_recipes_from_api, called on the pipeline's
\* recipe_integrator when the recipes it generates leave the random source
\* at no more than MaxFetched outputs
FetchRecipesFromApi ==
    /\ pc = "idle"
    /\ \E request \in FetchRequests :
          LET return(fetched) ==
                  /\ fetched.state[2] <= MaxFetched
                  /\ out' = [raised |-> "", recipes |-> fetched.recipes]
                  /\ random_state' = fetched.state
          IN  /\ call' = [op |-> "fetch", source_name |-> request[1], query |-> request[2],
                          dietary_restrictions |-> request[3], max_recipes |-> request[4],
                          seed |-> random_state]
              /\ return(fetch_recipes_from_api(request[1], request[2], request[3], request[4],
                                               random_state))
    /\ pc' = "done"
    /\ UNCHANGED <<previous, vector_store, persisted, data_dir, embedding_model>>

\* RecipeIntegrator.fetch_recipes_from_api when the generator raises at its
\* call, before it draws from the random source: for an enabled source the
\* exception is caught and the empty list returned; for a disabled or an
\* unknown source the generator is not called.
FetchRecipesFromApiSourceFails ==
    /\ pc = "idle"
    /\ \E request \in FetchRequests :
          /\ call' = [op |-> "fetch_source_fails", source_name |-> request[1],
                      query |-> request[2], dietary_restrictions |-> request[3],
                      max_recipes |-> request[4], seed |-> random_state]
          /\ out' = [raised |-> "", recipes |-> <<>>]
    /\ pc' = "done"
    /\ UNCHANGED <<previous, pipeline>>

\* The direct calls of generate_recipes, <<query, dietary_restrictions,
\* allergies, health_conditions, n_recipes>>.
GenerateRequests ==
    {<<QueryRice, <<>>, <<>>, <<>>, 2>>,
     <<QueryRice, <<>>, <<"soy">>, <<"diabetes">>, 2>>}

\* RecipeIntegrator.generate_recipes, called on the pipeline's
\* recipe_integrator when the recipes it generates leave the random source
\* at no more than MaxFetched outputs
GenerateRecipes ==
    /\ pc = "idle"
    /\ \E request \in GenerateRequests :
          LET return(generated) ==
                  /\ generated.state[2] <= MaxFetched
                  /\ out' = [raised |-> "", recipes |-> generated.recipes]
                  /\ random_state' = generated.state
          IN  /\ call' = [op |-> "generate", query |-> request[1],
                          dietary_restrictions |-> request[2], allergies |-> request[3],
                          health_conditions |-> request[4], n_recipes |-> request[5],
                          seed |-> random_state]
              /\ return(generate_recipes(request[1], request[2], request[3], request[4],
                                         request[5], random_state))
    /\ pc' = "done"
    /\ UNCHANGED <<previous, vector_store, persisted, data_dir, embedding_model>>

PipelineNext ==
    \/ Construct
    \/ DeleteCollection
    \/ Seed
    \/ StoreSearchRecipes
    \/ SearchRecipes
    \/ SeedAgain
    \/ SearchRecipesSourceFails
    \/ FetchRecipesFromApi
    \/ FetchRecipesFromApiSourceFails
    \/ GenerateRecipes
    \/ Return

PipelineSpec == PipelineInit /\ [][PipelineNext]_vars

-----------------------------------------------------------------------------
\* The claims

\* C1: whenever one of the user's allergies fuzzy-matches a recipe ingredient
\* (other listed allergies may match nothing), analyze_recipe_compatibility
\* returns overall_score = 0.0 and overall_compatible = False.
C1_AllergyConflictVetoes ==
    (pc = "done" /\ call.op = "analyze"
     /\ \E a \in 1..Len(call.allergies) :
           Conflicting(recipe_ingredients(call.recipe),
                       GetList(dietary_guidelines.allergies, call.allergies[a],
                               "incompatible_ingredients"), 1) # <<>>)
    => (out.overall_score = Zero /\ ~out.overall_compatible)

\* C2: analyze_recipe_compatibility returns an overall_score in [0,1] and
\* three dimension scores (restriction, allergy, health) in [0,1], for known
\* and unknown keys, empty lists or not.
C2_ScoresInUnitInterval ==
    (pc = "done" /\ call.op = "analyze")
    => \A x \in {out.overall_score,
                 out.restriction_compatibility.compatibility_score,
                 out.allergy_compatibility.compatibility_score,
                 out.health_compatibility.compatibility_score} :
          IsNum(x) /\ RLe(Zero, x) /\ RLe(x, One)

\* A recipe whose nutrient score is clamped (six avoided nutrients present),
\* analysed with keys in all three lists, one of them unknown.
C2_Witness ==
    /\ pc = "done" /\ call.op = "analyze"
    /\ call.recipe.id = "r1"
    /\ call.dietary_restrictions = <<"vegetarian", "paleo">>
    /\ call.allergies = <<"soy", "latex">>
    /\ call.health_conditions = <<"kidney">>
    /\ out.health_compatibility.compatibility_score = Zero

\* C6: the list find_substitutions returns is sorted non-increasing by the
\* options' fused score overall_score.
C6_SortedByFusedScore ==
    (pc = "done" /\ call.op = "substitute")
    => \A j, k \in 1..Len(out.substitutions) :
          j < k => RLe(out.substitutions[k].overall_score,
                       out.substitutions[j].overall_score)

\* C7: in the result of find_substitutions a candidate whose name one of the
\* user's allergies lists as incompatible (compared without regard to case)
\* has compatibility_score 0 and stands after every candidate with a
\* compatibility_score > 0.
C7_AllergenSubstitutesLast ==
    (pc = "done" /\ call.op = "substitute")
    => \A k \in 1..Len(out.substitutions) :
          (\E a \in 1..Len(call.allergies) :
              LET incompatible == GetList(dietary_guidelines.allergies,
                                          call.allergies[a], "incompatible_ingredients")
              IN  \E m \in 1..Len(incompatible) :
                     lower(incompatible[m]) = lower(out.substitutions[k].substitute_name))
          => /\ out.substitutions[k].compatibility_score = Zero
             /\ \A j \in 1..Len(out.substitutions) :
                   RLt(Zero, out.substitutions[j].compatibility_score) => j < k

\* A guideline-provided substitute that the user's allergy lists is returned
\* with score 0, behind a substitute with a positive score.
C7_Witness ==
    /\ pc = "done" /\ call.op = "substitute"
    /\ call.ingredient = <<"m", "i", "l", "k">>
    /\ call.allergies = <<"dairy", "dairy">>
    /\ \E j, k \in 1..Len(out.substitutions) :
          /\ j < k
          /\ out.substitutions[k].substitute_name = <<"w", "h", "o", "l", "e", " ", "m", "i", "l", "k">>
          /\ out.substitutions[k].compatibility_score = Zero
          /\ RLt(Zero, out.substitutions[j].compatibility_score)

\* C10: in optimize_recipe_nutrition a target nutrient with target > 0,
\* current >= 0.8 x target and |target - current| > 0.1 has band 1.0 and is
\* analysed all the same (it is in nutrient_analysis); a nutrient with
\* |target - current| <= 0.1 has no analysis entry and no suggestion.
C10_BandAndTriggerIndependent ==
    (pc = "done" /\ call.op = "optimize")
    => \A t \in 1..Len(call.target_nutrients) :
          LET nutrient == call.target_nutrients[t][1]
              target == call.target_nutrients[t][2]
              current == Rat(Get0(call.recipe.nutritional_info, nutrient), 1)
              difference == RSub(target, current)
              far == RLt(Rat(1, 10), RAbs(difference))
          IN  /\ (RLt(Zero, target) /\ RLe(RMul(Rat(8, 10), target), current) /\ far)
                 => /\ _calculate_optimization_score(call.recipe.nutritional_info,
                                                     <<call.target_nutrients[t]>>) = One
                    /\ nutrient \in DOMAIN out.nutrient_analysis
                    /\ (Len(call.target_nutrients) = 1 => out.optimization_score = One)
              /\ ~far
                 => /\ nutrient \notin DOMAIN out.nutrient_analysis
                    /\ \A k \in 1..Len(out.suggestions) :
                          out.suggestions[k].nutrient # nutrient

\* Target protein 50 against 45 (band 1.0, difference 5): analysed, with
\* boost suggestions.
C10_Witness ==
    /\ pc = "done" /\ call.op = "optimize"
    /\ call.recipe.id = "r2"
    /\ call.target_nutrients = << <<"protein", Rat(50, 1)>> >>
    /\ out.optimization_score = One
    /\ "protein" \in DOMAIN out.nutrient_analysis
    /\ out.nutrient_analysis["protein"].suggestions_count > 0
    /\ out.suggestions # <<>>

\* The index hits of the search request in `call`.
Hits ==
    StoreSearch(vector_store, call.request.query, call.request.n_results * 2,
                _build_filter_dict(call.request.dietary_restrictions, call.request.allergies,
                                   call.request.health_conditions))

\* The recipes generated for the search request in `call`.
Generated ==
    _get_dynamic_recipes(call.request.query, call.request.dietary_restrictions,
                         call.request.allergies, call.request.health_conditions,
                         call.request.n_results, call.seed).recipes

\* A search has returned a response.
SearchReturned == pc \in {"done", "again"} /\ call.op = "search" /\ out.raised = ""

\* C3: every entry search_recipes returns, from the index or generated, has
\* an overall_score that is a number between 0 and 1.
C3_FusedScoreInUnitInterval ==
    SearchReturned
    => \A k \in 1..Len(out.results) :
          /\ IsNum(out.results[k].overall_score)
          /\ RLe(Zero, out.results[k].overall_score)
          /\ RLe(out.results[k].overall_score, One)

\* C4: no two entries of the result list of search_recipes have the same
\* recipe title.
C4_NoDuplicateTitles ==
    SearchReturned
    => \A j, k \in 1..Len(out.results) :
          j # k => out.results[j].recipe.title # out.results[k].recipe.title

\* The index holds every recipe of the corpus twice and both entries are
\* hits, two generated recipes have one title, and it is the title of a hit;
\* the results hold a hit and a generated recipe.
C4_Witness ==
    /\ pc = "done" /\ call.op = "search" /\ out.raised = ""
    /\ call.request.include_dynamic
    /\ \E i, j \in 1..Len(Hits.documents) :
          /\ i # j
          /\ Hits.documents[i] = Hits.documents[j]
          /\ _find_recipe_by_text(Hits.documents[i], load_recipes(data_dir)) # None
          /\ \E g, h \in 1..Len(Generated) :
                /\ g # h
                /\ Generated[g].title = Generated[h].title
                /\ Generated[g].title
                   = _find_recipe_by_text(Hits.documents[i], load_recipes(data_dir)).title
    /\ \E j, k \in 1..Len(out.results) :
          /\ "source" \notin DOMAIN out.results[j].recipe
          /\ "source" \in DOMAIN out.results[k].recipe

\* C5, as claimed: for every integer n_results the number of results is at
\* most n_results and at most total_found.
C5_AtMostNResults ==
    SearchReturned
    => /\ Len(out.results) <= call.request.n_results
       /\ Len(out.results) <= out.total_found

\* C5, amended: the number of results is at most total_found, and at most
\* n_results when n_results >= 0.
C5_AtMostNonNegativeNResults ==
    SearchReturned
    => /\ call.request.n_results >= 0 => Len(out.results) <= call.request.n_results
       /\ Len(out.results) <= out.total_found

\* More entries with different titles were found than were asked for, and
\* n_results > 0 of them are returned.
C5_Witness ==
    /\ pc = "done" /\ call.op = "search" /\ out.raised = ""
    /\ call.request.n_results > 0
    /\ Len(out.results) = call.request.n_results
    /\ out.total_found > call.request.n_results

\* The titles and the scores of the entries of a response, in its order.
Listed(response) ==
    [k \in 1..Len(response.results) |->
        [title |-> response.results[k].recipe.title,
         search_score |-> response.results[k].search_score,
         overall_score |-> response.results[k].overall_score]]

NothingToFind(filter_dict) ==
    \/ vector_store.documents = <<>>
    \/ filter_dict # <<>> /\ _apply_filters(vector_store.metadatas, filter_dict) = <<>>

\* C9: a search of an index that has no entry, or none that satisfies the
\* constraints, returns four empty lists, and the pipeline's search_recipes
\* on such an index returns without raising.
C9_NothingFoundNothingRaised ==
    /\ (pc = "done" /\ call.op = "store_search" /\ NothingToFind(call.filter_dict))
       => /\ out.raised = ""
          /\ out.documents = <<>> /\ out.metadatas = <<>>
          /\ out.distances = <<>> /\ out.ids = <<>>
    /\ (pc \in {"done", "again"} /\ call.op = "search"
        /\ NothingToFind(_build_filter_dict(call.request.dietary_restrictions,
                                            call.request.allergies,
                                            call.request.health_conditions)))
       => out.raised = ""

\* An index with entries is searched with constraints that none of them
\* satisfies, two results being asked for.
C9_Witness ==
    /\ pc = "done" /\ call.op = "store_search"
    /\ vector_store.documents # <<>>
    /\ call.filter_dict # <<>>
    /\ call.n_results = 2
    /\ _apply_filters(vector_store.metadatas, call.filter_dict) = <<>>
    /\ out.documents = <<>>

\* ------------------------------------------------------------------------
\* The state machine of the vector index alone: a SimpleVectorStore in a
\* working directory without persist directory, entries being added to it
\* by its callers
\* ------------------------------------------------------------------------

\* The greatest number of entries this index is let grow to.
MaxEntries == 2

\* The filters of the searches: none; $in on a list and on a string field;
\* $contains with a string on a list field and on a string field;
\* $not_contains on a list field; a bare value; two constraints.
FilterCases ==
    {<<>>,
     << <<"dietary_tags", "$in", <<"vegan", "paleo">> >> >>,
     << <<"cuisine_type", "$in", << <<"a", "s", "i", "a", "n">>, <<"t", "h", "a", "i">> >> >> >>,
     << <<"dietary_tags", "$contains", <<"v", "e", "g", "a", "n">> >> >>,
     << <<"cuisine_type", "$contains", <<"i", "a", "n">> >> >>,
     << <<"dietary_tags", "$not_contains", <<"vegan">> >> >>,
     << <<"cuisine_type", "", <<"i", "n", "d", "i", "a", "n">> >> >>,
     << <<"dietary_tags", "$not_contains", <<"vegan">> >>,
        <<"health_benefits", "$in", <<"diabetes_friendly">> >> >>}

\* SimpleVectorStore() in a working directory without persist directory
StoreInit ==
    /\ Idle
    /\ vector_store = EmptyStore
    /\ persisted = EmptyStore
    /\ data_dir = "data_empty"
    /\ random_state = <<1, 0>>
    /\ embedding_model = [word_to_index |-> <<>>]

\* SimpleVectorStore.add_recipes: the entries are added and the index saved
AddRecipes ==
    /\ pc = "idle"
    /\ Len(vector_store.documents) < MaxEntries
    /\ \E batch \in Call("Batches", <<>>) :
          vector_store' = add_recipes(vector_store, batch.recipe_texts,
                                      batch.recipe_metadata, batch.embeddings)
    /\ persisted' = vector_store'
    /\ UNCHANGED <<pc, call, out, previous, data_dir, random_state, embedding_model>>

\* SimpleVectorStore.search_recipes with a filter
SearchFiltered ==
    /\ pc = "idle"
    /\ \E n_results \in {0, 1, MaxEntries + 1}, filter_dict \in FilterCases :
          /\ call' = [op |-> "store_search", query |-> QueryRice, n_results |-> n_results,
                      filter_dict |-> filter_dict]
          /\ out' = Call("StoreSearch", <<vector_store, QueryRice, n_results, filter_dict>>)
    /\ pc' = "done"
    /\ UNCHANGED <<previous, pipeline>>

StoreNext ==
    \/ AddRecipes
    \/ DeleteCollection
    \/ SearchFiltered
    \/ Return

StoreSpec == StoreInit /\ [][StoreNext]_vars

\* ------------------------------------------------------------------------
\* C11: the filter of the index search
\* ------------------------------------------------------------------------

\* A filtered search of the index has returned.
StoreSearchReturned == pc = "done" /\ call.op = "store_search" /\ out.raised = ""

\* The metadata satisfy the constraint <<key, operator, value>> as the
\* operators are documented: $in, the field or one of its elements is among
\* the values; $contains, the text is an element of the field or a part of
\* it; $not_contains, none of the values is in the field; a bare value, the
\* field equals it.
Satisfies(metadata, key, operator, value) ==
    /\ key \in DOMAIN metadata
    /\ CASE operator = "$in" ->
               IF key \in ListFields
               THEN \E k \in 1..Len(value) : InList(value[k], metadata[key])
               ELSE InList(metadata[key], value)
         [] operator = "$contains" ->
               IF key \in ListFields
               THEN \E k \in 1..Len(metadata[key]) : Spelling[metadata[key][k]] = value
               ELSE Contains(value, metadata[key])
         [] operator = "$not_contains" ->
               \A k \in 1..Len(value) : ~InList(value[k], metadata[key])
         [] OTHER -> metadata[key] = value

\* The ids of the entries of the index that satisfy every constraint of the
\* filter of the search in `call`.
Satisfying ==
    {vector_store.ids[i] : i \in
        {i \in 1..Len(vector_store.ids) :
            \A f \in 1..Len(call.filter_dict) :
                Satisfies(vector_store.metadatas[i], call.filter_dict[f][1],
                          call.filter_dict[f][2], call.filter_dict[f][3])}}

\* C11: a search of the index returns entries that satisfy every constraint
\* of its filter, and as many of them as there are, up to n_results.
C11_FilterReturnsExactlySatisfying ==
    StoreSearchReturned
    => /\ \A k \in 1..Len(out.ids) : out.ids[k] \in Satisfying
       /\ Len(out.ids) = IF Cardinality(Satisfying) < call.n_results
                         THEN Cardinality(Satisfying) ELSE call.n_results

\* ------------------------------------------------------------------------
\* C12: stored embeddings of another dimension than the query's
\* ------------------------------------------------------------------------

\* C12: a search of the index does not raise the error of two vectors of
\* different dimensions, whatever the dimensions of the stored embeddings.
C12_DimensionMismatchNeverFails ==
    pc = "done" /\ call.op = "store_search" => out.raised # "ValueError"

\* ------------------------------------------------------------------------
\* The state machine of an embedder alone: a SimpleEmbeddingModel and the
\* encode calls made on it.  `call` is the last call made on the embedder,
\* None before the first.
\* ------------------------------------------------------------------------

\* The texts of the encode calls: the empty text, a text without letter or
\* digit, and texts of one and of two words, some of them repeated.
EncodedTexts ==
    {<<>>,
     <<"!", "?">>,
     QueryRice,
     <<"B", "e", "e", "f">>,
     <<"B", "e", "e", "f", " ", "b", "e", "e", "f", ",", " ", "B", "E", "E", "F">>,
     <<"r", "i", "c", "e", " ", "r", "i", "c", "e", " ", "r", "i", "c", "e", " ",
       "b", "e", "e", "f", " ", "b", "e", "e", "f", " ", "b", "e", "e", "f", " ",
       "b", "e", "e", "f">>}

\* The lists of texts of the encode calls.
EncodedLists ==
    {<<>>} \cup {<<text>> : text \in EncodedTexts}
           \cup {<<QueryRice, text>> : text \in EncodedTexts}

\* SimpleEmbeddingModel()
EmbedderInit ==
    /\ Idle
    /\ embedding_model = [word_to_index |-> <<>>]
    /\ vector_store = EmptyStore
    /\ persisted = EmptyStore
    /\ data_dir = "data_empty"
    /\ random_state = <<1, 0>>

\* SimpleEmbeddingModel.encode_text on a list of texts: the vocabulary is
\* built when the embedder has none, and the texts are encoded.
Encoded(operation, texts) ==
    LET return(encoded) ==
            /\ embedding_model' = [word_to_index |-> encoded.word_to_index]
            /\ out' = [raised |-> "", embeddings |-> encoded.embeddings]
    IN  /\ call' = [op |-> operation, texts |-> texts]
        /\ return(Call("encode_text", <<texts, embedding_model.word_to_index>>))
        /\ pc' = "done"
        /\ UNCHANGED <<previous, vector_store, persisted, data_dir, random_state>>

\* SimpleEmbeddingModel.encode_text, called with a text or a list of texts
EncodeText ==
    /\ pc \in {"idle", "done"}
    /\ \E texts \in EncodedLists : Encoded("encode_text", texts)

\* SimpleEmbeddingModel.batch_encode
BatchEncode ==
    /\ pc \in {"idle", "done"}
    /\ \E texts \in EncodedLists : Encoded("batch_encode", texts)

\* SimpleEmbeddingModel.encode_query
EncodeQuery ==
    /\ pc \in {"idle", "done"}
    /\ \E query \in EncodedTexts : Encoded("encode_query", <<query>>)

\* SimpleEmbeddingModel.encode_recipe_text
EncodeRecipeText ==
    /\ pc \in {"idle", "done"}
    /\ \E recipe_text \in EncodedTexts : Encoded("encode_recipe_text", <<recipe_text>>)

\* SimpleEmbeddingModel.encode_with_metadata: the texts are encoded as
\* batch_encode encodes them; the result has the metadata when the list
\* given is not empty (the empty list is also None).
EncodeWithMetadata ==
    /\ pc \in {"idle", "done"}
    /\ \E texts \in EncodedLists, metadata \in {<<>>, <<[id |-> 1]>>} :
          LET result(embeddings) ==
                  IF metadata # <<>>
                  THEN [raised |-> "", embeddings |-> embeddings, texts |-> texts,
                        metadata |-> metadata]
                  ELSE [raised |-> "", embeddings |-> embeddings, texts |-> texts]
              return(encoded) ==
                  /\ embedding_model' = [word_to_index |-> encoded.word_to_index]
                  /\ out' = result(encoded.embeddings)
          IN  /\ call' = [op |-> "encode_with_metadata", texts |-> texts,
                          metadata |-> metadata]
              /\ return(Call("encode_text", <<texts, embedding_model.word_to_index>>))
    /\ pc' = "done"
    /\ UNCHANGED <<previous, vector_store, persisted, data_dir, random_state>>

EmbedderNext ==
    \/ EncodeText
    \/ BatchEncode
    \/ EncodeQuery
    \/ EncodeRecipeText
    \/ EncodeWithMetadata

EmbedderSpec == EmbedderInit /\ [][EmbedderNext]_vars

\* An encode call has been made on the embedder.
EncodeCalled ==
    call.op \in {"encode_text", "batch_encode", "encode_query", "encode_recipe_text",
                 "encode_with_metadata"}

\* C13: once an encode call has been made on an embedder, whatever its
\* texts, no later call changes the embedder's vocabulary.
C13_VocabularyFrozenAfterFirstCall ==
    [][EncodeCalled => embedding_model' = embedding_model]_vars

\* ------------------------------------------------------------------------
\* C14: the generator fails during a search
\* ------------------------------------------------------------------------

\* What search_recipes returns for the request in `call` from the index
\* hits alone.
StaticOnly ==
    search_recipes(vector_store, load_recipes(data_dir), call.request.query,
                   call.request.dietary_restrictions, call.request.allergies,
                   call.request.health_conditions, call.request.n_results, FALSE,
                   random_state).response

\* C14: a search with include_dynamic = True during which the generator
\* raises returns a response, and its results are the ranked index hits.
C14_SourceFailureCaught ==
    pc = "done" /\ call.op = "search_source_fails"
    => /\ out.raised = ""
       /\ out.results = StaticOnly.results

\* ------------------------------------------------------------------------
\* C15: keys the guideline tables do not hold
\* ------------------------------------------------------------------------

\* The keys of a list that the guideline table does not hold.
UnknownKeys(table, keys) == {keys[i] : i \in 1..Len(keys)} \ DOMAIN table

\* C15: in the result of analyze_recipe_compatibility, every restriction,
\* allergy and health condition that the guideline tables do not hold has
\* the score 1.0.
C15_UnknownKeyNeutral ==
    pc = "done" /\ call.op = "analyze"
    => /\ \A r \in UnknownKeys(dietary_guidelines.dietary_restrictions,
                               call.dietary_restrictions) :
             out.restriction_compatibility.results[r].score = One
       /\ \A a \in UnknownKeys(dietary_guidelines.allergies, call.allergies) :
             out.allergy_compatibility.results[a].score = One
       /\ \A c \in UnknownKeys(dietary_guidelines.health_conditions,
                               call.health_conditions) :
             out.health_compatibility.results[c].score = One

\* ------------------------------------------------------------------------
\* C16: the largest distance among the index hits is 0
\* ------------------------------------------------------------------------

\* C16: a search whose index hits all have distance 0 returns, and every
\* entry it returns has a search_score that is a number.
C16_SearchScoreDefined ==
    pc \in {"done", "again"} /\ call.op = "search"
    /\ Hits.raised = "" /\ Hits.distances # <<>>
    /\ (\A k \in 1..Len(Hits.distances) : Hits.distances[k] = Zero)
    => /\ out.raised = ""
       /\ \A k \in 1..Len(out.results) : IsNum(out.results[k].search_score)

\* ------------------------------------------------------------------------
\* C19, C20: the record analyze_recipe_compatibility returns
\* ------------------------------------------------------------------------

\* C19: the record the pipeline's analyze_recipe_compatibility returns has
\* the fields compatibility_analysis and substitution_suggestions.
C19_AnalysisAndSuggestionFields ==
    pc = "done" /\ call.op = "analyze"
    => {"compatibility_analysis", "substitution_suggestions"} \subseteq DOMAIN out

\* The score of a dimension is the mean of the scores of its keys, 1.0 when
\* there is none.
MeanOfKeys(dimension) ==
    IF dimension.keys = <<>> THEN dimension.compatibility_score = One
    ELSE dimension.compatibility_score
         = RDiv(RSum(List([k \in 1..Len(dimension.keys) |->
                              dimension.results[dimension.keys[k]].score])),
                Rat(Len(dimension.keys), 1))

\* C20: the overall score of an analysis is 0.0 exactly when the restriction
\* score or the allergy score is 0.0, and restriction*0.4 + allergy*0.4 +
\* health*0.2 otherwise; overall_compatible is true iff it is at least 0.7.
C20_VetoOrWeightedSum ==
    pc = "done" /\ call.op = "analyze"
    => LET fused(restriction, allergy, health) ==
               /\ out.overall_score = Zero <=> (restriction = Zero \/ allergy = Zero)
               /\ ~(restriction = Zero \/ allergy = Zero)
                  => out.overall_score
                     = RAdd(RAdd(RMul(restriction, Rat(4, 10)), RMul(allergy, Rat(4, 10))),
                            RMul(health, Rat(2, 10)))
               /\ out.overall_compatible <=> RLe(Rat(7, 10), out.overall_score)
       IN  /\ MeanOfKeys(out.restriction_compatibility)
           /\ MeanOfKeys(out.allergy_compatibility)
           /\ MeanOfKeys(out.health_compatibility)
           /\ fused(out.restriction_compatibility.compatibility_score,
                    out.allergy_compatibility.compatibility_score,
                    out.health_compatibility.compatibility_score)

\* An analysis vetoed by the restriction score alone: the recipe holds an
\* ingredient the restriction excludes and none the user is allergic to.
C20_Witness ==
    /\ pc = "done" /\ call.op = "analyze"
    /\ out.restriction_compatibility.compatibility_score = Zero
    /\ out.allergy_compatibility.compatibility_score = One
    /\ call.allergies # <<>>
    /\ out.overall_score = Zero
    /\ ~out.overall_compatible

\* ------------------------------------------------------------------------
\* The state machine of a constructed pipeline and the four operations that
\* read it
\* ------------------------------------------------------------------------

\* A faulty variant: the search query is encoded with the pipeline's embedder,
\* which builds its vocabulary from the query when it holds no word yet.
EncodingGetPersonalizedRecommendations ==
    /\ pc = "idle"
    /\ \E user_profile \in Call("UserProfiles", <<>>), n_recommendations \in {1, 2},
          include_dynamic \in BOOLEAN :
          LET return(recommended) ==
                  /\ recommended.state[2] <= MaxDraws
                  /\ out' = recommended.response
                  /\ random_state' = recommended.state
          IN  /\ include_dynamic => n_recommendations = 1
              /\ call' = [op |-> "recommend", user_profile |-> user_profile,
                          n_recommendations |-> n_recommendations,
                          include_dynamic |-> include_dynamic, seed |-> random_state]
              /\ embedding_model' =
                    [word_to_index |->
                        IF Len(embedding_model.word_to_index) = 0
                        THEN _build_vocabulary(<<_build_search_query(
                                 Get(user_profile, "preferences", <<>>),
                                 Get(user_profile, "nutritional_goals", <<>>))>>)
                        ELSE embedding_model.word_to_index]
              /\ return(Call("get_personalized_recommendations", <<
                                      vector_store, load_recipes(data_dir), user_profile,
                                      n_recommendations, include_dynamic, random_state>>))
    /\ pc' = "done"
    /\ UNCHANGED <<previous, vector_store, persisted, data_dir>>

\* RAGPipeline.get_personalized_recommendations.  Recipes are generated for
\* one recommendation only: the four recipes generated for two take more
\* outputs than MaxDraws.
GetPersonalizedRecommendations ==
    /\ pc = "idle"
    /\ \E user_profile \in Call("UserProfiles", <<>>), n_recommendations \in {1, 2},
          include_dynamic \in BOOLEAN :
          LET return(recommended) ==
                  /\ recommended.state[2] <= MaxDraws
                  /\ out' = recommended.response
                  /\ random_state' = recommended.state
          IN  /\ include_dynamic => n_recommendations = 1
              /\ call' = [op |-> "recommend", user_profile |-> user_profile,
                          n_recommendations |-> n_recommendations,
                          include_dynamic |-> include_dynamic, seed |-> random_state]
              /\ return(Call("get_personalized_recommendations", <<
                                      vector_store, load_recipes(data_dir), user_profile,
                                      n_recommendations, include_dynamic, random_state>>))
    /\ pc' = "done"
    /\ UNCHANGED <<previous, vector_store, persisted, data_dir, embedding_model>>

OperationsNext ==
    \/ SearchRecipes
    \/ GetPersonalizedRecommendations
    \/ GetIngredientSubstitutions
    \/ AnalyzeRecipeCompatibility
    \/ Return

\* The operations are called on a pipeline constructed while the random
\* source was in the state the first seed leaves.
OperationsInit == PipelineInit /\ random_state = <<1, 0>>

OperationsSpec == OperationsInit /\ [][OperationsNext]_vars

\* ------------------------------------------------------------------------
\* C17: the four operations read the pipeline and never write it
\* ------------------------------------------------------------------------

\* One of the four operations of a constructed pipeline has just returned.
OperationReturned ==
    pc = "done" /\ call.op \in {"search", "recommend", "substitute", "analyze"}

\* C17: on a constructed pipeline every step of search_recipes,
\* get_personalized_recommendations, get_ingredient_substitutions and
\* analyze_recipe_compatibility, in any number and order, leaves unchanged
\* the documents, metadatas, embeddings and ids of the vector index, the
\* vocabulary of the pipeline's embedder and the recipes of the static corpus.
C17_OperationsReadOnly ==
    [][/\ vector_store'.documents = vector_store.documents
       /\ vector_store'.metadatas = vector_store.metadatas
       /\ vector_store'.embeddings = vector_store.embeddings
       /\ vector_store'.ids = vector_store.ids
       /\ embedding_model'.word_to_index = embedding_model.word_to_index
       /\ load_recipes(data_dir') = load_recipes(data_dir)]_vars

\* Recommendations have returned a recipe the generator made for the
\* request, on a pipeline whose index and corpus hold recipes.
C17_Witness ==
    /\ OperationReturned
    /\ call.op = "recommend"
    /\ out.raised = ""
    /\ vector_store.documents # <<>>
    /\ embedding_model.word_to_index # <<>>
    /\ \E k \in 1..Len(out.recommendations) :
          out.recommendations[k].recipe \notin Range(load_recipes(data_dir))

\* ------------------------------------------------------------------------
\* C18: the optimizer's record on the recommendations
\* ------------------------------------------------------------------------

\* get_personalized_recommendations has returned a response.
Recommendations == pc = "done" /\ call.op = "recommend" /\ out.raised = ""

\* C18: every recommendation get_personalized_recommendations returns holds
\* 'nutrition_optimization' if and only if the profile's nutritional goals
\* are a dictionary that is not empty, and then its value is what
\* optimize_recipe_nutrition returns for the recommendation's recipe and the
\* profile's goals, restrictions and allergies.
C18_OptimizationIffGoals ==
    Recommendations =>
        \A k \in 1..Len(out.recommendations) :
            /\ "nutrition_optimization" \in DOMAIN out.recommendations[k]
                   <=> Get(call.user_profile, "nutritional_goals", <<>>) # <<>>
            /\ "nutrition_optimization" \in DOMAIN out.recommendations[k]
                   => out.recommendations[k].nutrition_optimization
                      = optimize_recipe_nutrition(
                            out.recommendations[k].recipe,
                            Get(call.user_profile, "nutritional_goals", <<>>),
                            Get(call.user_profile, "dietary_restrictions", <<>>),
                            Get(call.user_profile, "allergies", <<>>))

\* A recommendation has been returned for a profile with goals, restrictions
\* and allergies, and the optimizer has suggestions for it.
C18_Witness ==
    /\ Recommendations
    /\ Get(call.user_profile, "nutritional_goals", <<>>) # <<>>
    /\ Get(call.user_profile, "dietary_restrictions", <<>>) # <<>>
    /\ Get(call.user_profile, "allergies", <<>>) # <<>>
    /\ \E k \in 1..Len(out.recommendations) :
          out.recommendations[k].nutrition_optimization.suggestions # <<>>

\* ------------------------------------------------------------------------
\* C21: the fused score of the entries of a search
\* ------------------------------------------------------------------------

\* The entry was made from a generated recipe.
Synthetic(entry) == "source" \in DOMAIN entry.recipe

\* C21: every entry search_recipes returns has overall_score =
\* search_score * 0.6 + compatibility overall_score * 0.4, its search_score
\* being 1 - distance / max(distances of the index hits) for an entry of the
\* index and 0.8 for a generated recipe.
C21_FusedScoreFormula ==
    SearchReturned
    => \A k \in 1..Len(out.results) :
          /\ out.results[k].overall_score
             = FAdd(FMul(out.results[k].search_score, Rat(6, 10)),
                    FMul(out.results[k].compatibility.overall_score, Rat(4, 10)))
          /\ out.results[k].search_score
             = IF Synthetic(out.results[k]) THEN Rat(8, 10)
               ELSE FSub(One, RDiv(out.results[k].distance, Max(Hits.distances)))

\* ------------------------------------------------------------------------
\* C22: ranking, one entry per title, truncation and total_found
\* ------------------------------------------------------------------------

\* x >= y on floats: every comparison with nan is False
FGe(x, y) == IsNum(x) /\ IsNum(y) /\ RLe(y, x)

\* The merged candidates of the search request in `call`: the entries of the
\* index hits, then those of the generated recipes.
Candidates ==
    StaticResults(Hits, load_recipes(data_dir), call.request.dietary_restrictions,
                  call.request.allergies, call.request.health_conditions).results
    \o (IF call.request.include_dynamic
        THEN DynamicResults(Generated, call.request.dietary_restrictions,
                            call.request.allergies, call.request.health_conditions)
        ELSE <<>>)

\* Whether a result list is what the ranking makes of the candidates: it is
\* sorted non-increasing by overall_score; every entry of it is a candidate
\* whose overall_score is the highest among the candidates of its title; a
\* candidate whose title is not in the list scores no more than any entry
\* of the list; total_found is the number of different titles.
Ranked(results, total_found, candidates) ==
    /\ \A j, k \in 1..Len(results) :
          j < k => FGe(results[j].overall_score, results[k].overall_score)
    /\ \A k \in 1..Len(results) :
          /\ \E c \in 1..Len(candidates) : candidates[c] = results[k]
          /\ \A c \in 1..Len(candidates) :
                /\ candidates[c].recipe.title = results[k].recipe.title
                /\ candidates[c] # results[k]
                => FGe(results[k].overall_score, candidates[c].overall_score)
    /\ \A c \in 1..Len(candidates) :
          (\A k \in 1..Len(results) : results[k].recipe.title # candidates[c].recipe.title)
          => \A k \in 1..Len(results) :
                FGe(results[k].overall_score, candidates[c].overall_score)
    /\ total_found = Cardinality({candidates[c].recipe.title : c \in 1..Len(candidates)})

\* C22: the result list of search_recipes is sorted non-increasing by
\* overall_score, the entry kept for a title is one with the highest
\* overall_score of that title among the merged candidates, truncation
\* removes only the lowest-ranked titles, and total_found is the number of
\* different titles among the candidates.
C22_RankedBestOfEachTitle ==
    SearchReturned => Ranked(out.results, out.total_found, Candidates)

\* ------------------------------------------------------------------------
\* C23: the allergy constraint of a search
\* ------------------------------------------------------------------------

\* The ingredients the guideline entries of the allergies list as
\* incompatible.
IncompatibleIngredients(allergies) ==
    Flatten(List([a \in 1..Len(allergies) |->
                     GetList(dietary_guidelines.allergies, allergies[a],
                             "incompatible_ingredients")]))

\* The positions (from 0) of the index entries that are eligible: the recipe
\* of the entry has none of the incompatible ingredients, and the entry
\* passes the constraints of the restrictions and the health conditions.
Eligible(store, corpus, incompatible, passing) ==
    SelectSeq(passing,
              LAMBDA i :
                 LET recipe == _find_recipe_by_text(store.documents[i + 1], corpus)
                 IN  /\ recipe # None
                     /\ \A g \in 1..Len(recipe.ingredients) :
                           ~InList(recipe.ingredients[g], incompatible))

\* Whether the hits are the eligible entries: every hit is eligible, and
\* every eligible entry is a hit when n_results bounds them.
HitsAreEligible(store, hits, eligible, n_results) ==
    /\ \A h \in 1..Len(hits.ids) :
          \E e \in 1..Len(eligible) : store.ids[eligible[e] + 1] = hits.ids[h]
    /\ Len(eligible) <= n_results
       => \A e \in 1..Len(eligible) :
             \E h \in 1..Len(hits.ids) : hits.ids[h] = store.ids[eligible[e] + 1]

\* C23: when search_recipes is called with allergies whose guideline entries
\* list incompatible ingredients, the index entries taken as hits are those
\* whose recipe has none of the listed ingredients and that pass the
\* constraints of the restrictions and the health conditions: a recipe
\* without an excluded ingredient stays eligible, one with an excluded
\* ingredient is left out.
C23_AllergyFilterByIngredients ==
    /\ pc \in {"done", "again"} /\ call.op = "search"
    /\ IncompatibleIngredients(call.request.allergies) # <<>>
    /\ Hits.raised = ""
    => HitsAreEligible(vector_store, Hits,
                       Eligible(vector_store, load_recipes(data_dir),
                                IncompatibleIngredients(call.request.allergies),
                                _apply_filters(vector_store.metadatas,
                                    _build_filter_dict(call.request.dietary_restrictions,
                                                       <<>>,
                                                       call.request.health_conditions))),
                       call.request.n_results * 2)

\* ------------------------------------------------------------------------
\* C24: the hits of the index search
\* ------------------------------------------------------------------------

\* The similarity of the query and each stored entry.
Similarities(store, query_embedding) ==
    List([i \in 1..Len(store.embeddings) |->
             _cosine_similarity(query_embedding, store.embeddings[i])])

\* Whether `result` lists the k most similar of the entries at `passing`
\* (positions from 0): their number, the order, and the four lists speaking
\* of one stored entry at each position.
TopHits(store, result, passing, similarity, k) ==
    /\ Len(result.ids) = (IF k < Len(passing) THEN k ELSE Len(passing))
    /\ Len(result.documents) = Len(result.ids)
    /\ Len(result.metadatas) = Len(result.ids)
    /\ Len(result.distances) = Len(result.ids)
    /\ \A h \in 1..Len(result.ids) :
          \E e \in 1..Len(passing) :
             /\ result.ids[h] = store.ids[passing[e] + 1]
             /\ result.documents[h] = store.documents[passing[e] + 1]
             /\ result.metadatas[h] = store.metadatas[passing[e] + 1]
             /\ result.distances[h] = RSub(One, similarity[passing[e] + 1])
    /\ \A g, h \in 1..Len(result.ids) :
          /\ g < h => RLe(result.distances[g], result.distances[h])
          /\ g # h => result.ids[g] # result.ids[h]
    /\ \A e \in 1..Len(passing) :
          (\A h \in 1..Len(result.ids) : result.ids[h] # store.ids[passing[e] + 1])
          => \A h \in 1..Len(result.distances) :
                RLe(result.distances[h], RSub(One, similarity[passing[e] + 1]))

\* C24: the index search with k >= 0 returns min(k, number of entries the
\* filter lets pass) hits; they are the passing entries with the k highest
\* similarities, listed with non-decreasing distance = 1 - similarity, and
\* the id, document and metadata at a position are those of the stored
\* entry the distance at that position is of.
C24_TopKOfPassingEntries ==
    pc = "done" /\ call.op = "store_search" /\ call.n_results >= 0
    => /\ out.raised = ""
       /\ TopHits(vector_store, out,
                  IF call.filter_dict = <<>>
                  THEN List([i \in 1..Len(vector_store.metadatas) |-> i - 1])
                  ELSE _apply_filters(vector_store.metadatas, call.filter_dict),
                  Similarities(vector_store, _text_to_simple_embedding(call.query)),
                  call.n_results)

\* ------------------------------------------------------------------------
\* The index under its mutators (src/src/simple_vector_store.py) and the
\* pipeline's build step (src/src/rag_pipeline.py)
\* ------------------------------------------------------------------------

\* The build step of a pipeline on the index `stored`
BuiltIndex(stored, initialized) ==
    add_recipes(stored, initialized.recipe_texts, initialized.recipe_metadata,
                initialized.embeddings)

\* RAGPipeline(d), d of IndexDirs: the build step on the loaded index
BuildIndex ==
    /\ pc = "idle"
    /\ \E d \in Range(IndexDirs) :
          /\ Len(BuiltIndex(persisted, Call("IndexBatches", <<>>)[d]).documents) <= MaxDocuments
          /\ vector_store' = BuiltIndex(persisted, Call("IndexBatches", <<>>)[d])
          /\ data_dir' = d
          /\ embedding_model' = [word_to_index |-> Call("IndexBatches", <<>>)[d].word_to_index]
    /\ persisted' = vector_store'
    /\ UNCHANGED <<pc, call, out, previous, random_state>>

\* SimpleVectorStore.reset_collection: delete_collection is called
ResetCollection ==
    /\ pc = "idle"
    /\ vector_store' = EmptyStore
    /\ persisted' = vector_store'
    /\ UNCHANGED <<pc, call, out, previous, data_dir, random_state, embedding_model>>

IndexNext ==
    \/ BuildIndex
    \/ AddRecipes
    \/ DeleteCollection
    \/ ResetCollection

IndexSpec == StoreInit /\ [][IndexNext]_vars

\* C25: after any sequence of add_recipes, delete_collection and
\* reset_collection, the build step of a pipeline included, the documents,
\* the metadatas, the embeddings and the ids of the index have the same
\* length.
C25_ParallelSequences ==
    /\ Len(vector_store.metadatas) = Len(vector_store.documents)
    /\ Len(vector_store.embeddings) = Len(vector_store.documents)
    /\ Len(vector_store.ids) = Len(vector_store.documents)

\* add_recipes and the build step only append: what the index held stays
\* where it was.
AppendOnly ==
    [][Len(vector_store'.documents) > 0 =>
          /\ Len(vector_store'.documents) >= Len(vector_store.documents)
          /\ SubSeq(vector_store'.documents, 1, Len(vector_store.documents))
                = vector_store.documents
          /\ SubSeq(vector_store'.metadatas, 1, Len(vector_store.metadatas))
                = vector_store.metadatas
          /\ SubSeq(vector_store'.embeddings, 1, Len(vector_store.embeddings))
                = vector_store.embeddings
          /\ SubSeq(vector_store'.ids, 1, Len(vector_store.ids)) = vector_store.ids]_vars

\* The index built from "data_long": three chunks and one metadata
LongIndexBuilt ==
    /\ data_dir = "data_long"
    /\ Len(vector_store.documents) = 3
    /\ Len(vector_store.metadatas) = 1

\* C26: after a pipeline has been constructed on a data directory, the
\* index holds every chunk of the directory's corpus exactly once, whatever
\* index the persist directory held before: its documents are the chunks
\* of the corpus.
C26_CorpusIndexedOnce ==
    [][Construct =>
          vector_store'.documents = create_recipe_chunks(load_recipes(data_dir'))]_vars

\* ------------------------------------------------------------------------
\* C27: the scores of the restriction dimension
\* ------------------------------------------------------------------------

\* Some ingredient of the recipe and some ingredient the restriction
\* excludes match one another.
Conflict(names, excluded_ingredients) ==
    \E n \in 1..Len(names), e \in 1..Len(excluded_ingredients) :
        _ingredient_matches(lower(excluded_ingredients[e]), names[n])

\* The score of one restriction, given whether the recipe carries its tag
\* and whether an ingredient conflicts with it.
ScoredByTagAndConflict(score, tagged, conflict) ==
    /\ score = One <=> (tagged /\ ~conflict)
    /\ score = Zero <=> conflict
    /\ score = Rat(1, 2) <=> (~conflict /\ ~tagged)

\* The restriction dimension of an analysis of `recipe` for a user with the
\* restrictions `user_restrictions`.
RestrictionDimension(dimension, recipe, user_restrictions) ==
    /\ Range(dimension.keys) = Range(user_restrictions)
    /\ \A r \in Range(user_restrictions) :
          ScoredByTagAndConflict(
              dimension.results[r].score,
              r \in Range(recipe.dietary_tags),
              Conflict(recipe_ingredients(recipe),
                       GetList(dietary_guidelines.dietary_restrictions, r,
                               "excluded_ingredients")))
    /\ MeanOfKeys(dimension)
    /\ user_restrictions = <<>> => dimension.compatibility_score = One

\* C27: in an analysis the score of a restriction is 1.0 iff the recipe has
\* its tag and no ingredient matches an excluded one, 0.0 iff some ingredient
\* matches an excluded one, and 0.5 iff none does and the tag is missing;
\* the restriction score is their mean, and 1.0 without restrictions.
C27_RestrictionScores ==
    pc = "done" /\ call.op = "analyze"
    => RestrictionDimension(out.restriction_compatibility, call.recipe,
                            call.dietary_restrictions)

\* An analysis for two restrictions of which one has a conflict and the
\* other neither a conflict nor its tag: the restriction score is 0.25.
C27_Witness ==
    /\ pc = "done" /\ call.op = "analyze"
    /\ Len(call.dietary_restrictions) = 2
    /\ \E r \in Range(call.dietary_restrictions) :
          out.restriction_compatibility.results[r].score = Zero
    /\ \E r \in Range(call.dietary_restrictions) :
          /\ out.restriction_compatibility.results[r].score = Rat(1, 2)
          /\ r \notin Range(call.recipe.dietary_tags)
    /\ out.restriction_compatibility.compatibility_score = Rat(1, 4)

\* ------------------------------------------------------------------------
\* C28: the compatibility score of a substitute
\* ------------------------------------------------------------------------

\* The restriction excludes the substitute.
Excludes(restriction, substitute) ==
    \E e \in Range(GetList(dietary_guidelines.dietary_restrictions, restriction,
                           "excluded_ingredients")) :
        lower(e) = lower(substitute)

\* The allergy lists the substitute as incompatible.
Lists(allergy, substitute) ==
    \E e \in Range(GetList(dietary_guidelines.allergies, allergy,
                           "incompatible_ingredients")) :
        lower(e) = lower(substitute)

RECURSIVE Adjusted(_, _, _, _, _)
\* The score after the restrictions at the positions i to n, one after the
\* other: less 0.5 at a position of `losses`, plus 0.2 at a position of
\* `gains` (both at a position of both), then clamped to [0, 1].
Adjusted(score, losses, gains, i, n) ==
    IF i > n
    THEN IF RLt(score, Zero) THEN Zero ELSE IF RLt(One, score) THEN One ELSE score
    ELSE LET lost == IF i \in losses THEN RSub(score, Rat(5, 10)) ELSE score
         IN  Adjusted(IF i \in gains THEN RAdd(lost, Rat(2, 10)) ELSE lost,
                      losses, gains, i + 1, n)

\* The positions of the restrictions that exclude the substitute.
Excluding(dietary_restrictions, substitute) ==
    {i \in 1..Len(dietary_restrictions) : Excludes(dietary_restrictions[i], substitute)}

\* The positions of the restrictions whose tag the substitute carries.
Tagging(dietary_restrictions, substitute) ==
    {i \in 1..Len(dietary_restrictions) :
        dietary_restrictions[i] \in Range(IngredientInfo(substitute).dietary_tags)}

\* The score of an option follows from the allergies, from the restrictions
\* that exclude the substitute and from the restrictions at `gains`.
ScoredSubstitute(option, dietary_restrictions, allergies, gains) ==
    /\ (\E a \in Range(allergies) : Lists(a, option.substitute_name))
       => option.compatibility_score = Zero
    /\ ~(\E a \in Range(allergies) : Lists(a, option.substitute_name))
       => option.compatibility_score
          = Adjusted(One, Excluding(dietary_restrictions, option.substitute_name), gains,
                     1, Len(dietary_restrictions))
    /\ RLe(Zero, option.compatibility_score)
    /\ RLe(option.compatibility_score, One)
    /\ (dietary_restrictions = <<>> /\ allergies = <<>>)
       => option.compatibility_score = One

\* C28 as stated: the compatibility score of a returned substitute is 1.0,
\* less 0.5 for each user restriction that excludes it, plus 0.2 for each
\* user restriction whose tag it carries, clamped to [0, 1]; it is 0 when a
\* user allergy lists the substitute, and 1.0 when the user has neither
\* restrictions nor allergies.
C28_LossAndGainPerRestriction ==
    pc = "done" /\ call.op = "substitute"
    => \A k \in 1..Len(out.substitutions) :
          ScoredSubstitute(out.substitutions[k], call.dietary_restrictions, call.allergies,
                           Tagging(call.dietary_restrictions,
                                   out.substitutions[k].substitute_name))

\* C28, amended: the compatibility score of a returned substitute is 1.0,
\* less 0.5 for each user restriction that excludes it, plus 0.2 for each
\* user restriction that does not exclude it and whose tag it carries,
\* clamped to [0, 1]; it is 0 when a user allergy lists the substitute, and
\* 1.0 when the user has neither restrictions nor allergies.
C28_SubstituteCompatibility ==
    pc = "done" /\ call.op = "substitute"
    => \A k \in 1..Len(out.substitutions) :
          ScoredSubstitute(out.substitutions[k], call.dietary_restrictions, call.allergies,
                           Tagging(call.dietary_restrictions,
                                   out.substitutions[k].substitute_name)
                           \ Excluding(call.dietary_restrictions,
                                       out.substitutions[k].substitute_name))

\* A substitute no user allergy lists, with a restriction of the user that
\* both excludes it and is among its tags, and another restriction that only
\* is among its tags: its score is 1.0 - 0.5 + 0.2.
C28_Witness ==
    /\ pc = "done" /\ call.op = "substitute"
    /\ \E k \in 1..Len(out.substitutions) :
          LET substitute == out.substitutions[k].substitute_name
          IN  /\ out.substitutions[k].compatibility_score = Rat(7, 10)
              /\ ~(\E a \in Range(call.allergies) : Lists(a, substitute))
              /\ Excluding(call.dietary_restrictions, substitute)
                    \cap Tagging(call.dietary_restrictions, substitute) # {}
              /\ Tagging(call.dietary_restrictions, substitute)
                    \ Excluding(call.dietary_restrictions, substitute) # {}

\* ------------------------------------------------------------------------
\* C29: the optimization score
\* ------------------------------------------------------------------------

\* The band value of a nutrient: 1.0 from 0.8 x target on, 0.7 from
\* 0.5 x target on, 0.3 below.
BandValue(current, target) ==
    IF RLe(RMul(Rat(8, 10), target), current) THEN One
    ELSE IF RLe(RMul(Rat(5, 10), target), current) THEN Rat(7, 10)
    ELSE Rat(3, 10)

\* `score` is the mean of the band values of the goals with a target
\* above 0, and 1.0 when there is none.
MeanOfBands(score, current_nutrition, target_nutrients) ==
    LET tracked == {t \in 1..Len(target_nutrients) : RLt(Zero, target_nutrients[t][2])}
        band(t) == BandValue(Rat(Get0(current_nutrition, target_nutrients[t][1]), 1),
                             target_nutrients[t][2])
    IN  /\ tracked = {} => score = One
        /\ tracked # {}
           => score = RDiv(RSum(List([t \in 1..Len(target_nutrients) |->
                                         IF t \in tracked THEN band(t) ELSE Zero])),
                           Rat(Cardinality(tracked), 1))
        /\ RLe(Rat(3, 10), score)
        /\ RLe(score, One)

\* C29: the optimization score of optimize_recipe_nutrition is the mean of
\* the band values (1.0 when current >= 0.8 x target, 0.7 when current >=
\* 0.5 x target, 0.3 otherwise) of the tracked target nutrients; it is 1.0
\* when no goal is given, and it lies in [0.3, 1.0].
C29_OptimizationScore ==
    pc = "done" /\ call.op = "optimize"
    => /\ MeanOfBands(out.optimization_score, call.recipe.nutritional_info,
                      call.target_nutrients)
       /\ call.target_nutrients = <<>> => out.optimization_score = One

\* ------------------------------------------------------------------------
\* C30: the generated recipes and the requested restrictions
\* ------------------------------------------------------------------------

Meat == {<<"b", "e", "e", "f">>, <<"c", "h", "i", "c", "k", "e", "n">>}

DairyAndEggs ==
    {<<"m", "i", "l", "k">>, <<"e", "g", "g", "s">>, <<"c", "h", "e", "e", "s", "e">>,
     <<"b", "u", "t", "t", "e", "r">>}

FlourAndPasta == {<<"f", "l", "o", "u", "r">>, <<"p", "a", "s", "t", "a">>}

\* The ingredients and the tags of a generated recipe respect the requested
\* restrictions.
Respects(recipe, dietary_restrictions) ==
    LET names == Range(recipe.ingredients)
        requested == Range(dietary_restrictions)
    IN  /\ "vegetarian" \in requested => names \cap Meat = {}
        /\ "vegan" \in requested => names \cap (Meat \cup DairyAndEggs) = {}
        /\ "gluten-free" \in requested => names \cap FlourAndPasta = {}
        /\ requested \subseteq Range(recipe.dietary_tags)

\* C30: every generated recipe a search returns has no meat when
\* 'vegetarian' is requested, no meat, dairy or eggs when 'vegan' is
\* requested, no flour or pasta when 'gluten-free' is requested, and carries
\* every requested restriction among its dietary tags.
C30_GeneratedRespectsRestrictions ==
    SearchReturned
    => \A k \in 1..Len(out.results) :
          Synthetic(out.results[k])
          => Respects(out.results[k].recipe, call.request.dietary_restrictions)
====
